---- MODULE Spec2Model ----
(***************************************************************************)
(* PixelWar AI: the backend's x402 claim handler (backend/server.js) and   *)
(* the PixelWarTreasury contract (contracts/PixelWarTreasury.sol).         *)
(*                                                                         *)
(* Money is counted in USDC raw units (6 decimals): the server's float     *)
(* 0.001 is 1000 here.  round6(p * k/10) is (k*p + 5) \div 10; on the      *)
(* prices the server can reach (1000, 1300, 1690, 2197, ...) the IEEE      *)
(* double computation of server.js gives exactly these integers.           *)
(***************************************************************************)
EXTENDS Integers, Sequences, FiniteSets, TLC

\* ------------------------------------------------------------------ bounds
\* Number of HTTP requests the server receives in one run.
MaxReq == 2
\* Number of claims per run of the server/contract comparison.
MaxMirror == 5
\* USDC (raw units) each agent holds when the contract is deployed.
InitialFunds == 100000
\* Number of calls made to the contract in one run.
MaxCalls == 3
\* Number of rounds of the skill client's game loop in one run.
\* The clock: seconds per tick, and the last second of a run.
TickSeconds == 150
MaxClock == 450
MaxChallenges == 1
MaxVerifies == 2
TickMs == 2500
MaxCaptchaClock == 8000
MaxPicks == 3

\* ------------------------------------------------------- program constants
CANVAS_SIZE == 1000
INITIAL_PRICE == 1000
\* PRICE_MULTIPLIER = 1.3 and the four ratios, in tenths.
PRICE_MULTIPLIER_X10 == 13
REBATE_RATIO_X10 == 4
TREASURY_RATIO_X10 == 4
LOOT_RATIO_X10 == 1
DEV_RATIO_X10 == 1
\* maxTimeoutSeconds of the 402 quote.
MAX_TIMEOUT_SECONDS == 300

\* PixelWarTreasury.sol
BASE_PRICE == 1000
PRICE_MULTIPLIER_BPS == 15000
BPS_DENOMINATOR == 10000
REBATE_BPS == 4000
TREASURY_BPS == 4000
LOOT_BPS == 1000
DEV_BPS == 1000
MAX_COORD == 10000

OWNER_WALLET == "0xOwner"
ZERO_ADDRESS == "0x0"
USDC_ADDRESS == "0xUSDC"
TRANSFER_TOPIC == "Transfer(address,address,uint256)"

\* JavaScript null/undefined: Null for a string, Nil for an object.
Null == "null"
Nil == [nil |-> TRUE]

\* ------------------------------------------------------------ sample inputs
Agents == {"agent-A", "agent-B"}
GoodColor == "#FF5733"

\* A transaction hash stands for the transaction the chain holds under it:
\* kind "ok" is a successful transfer of `amount` of the token `asset` from
\* `from` to `to`.
TxOk(id, amount) ==
    [id |-> id, kind |-> "ok", asset |-> USDC_ADDRESS, from |-> "0xPayer",
     to |-> OWNER_WALLET, amount |-> amount]
TxA == TxOk(1, 1000)
TxB == TxOk(2, 1300)
TxShort == TxOk(3, 999)
TxFailed == [TxOk(4, 1300) EXCEPT !.kind = "failed"]
TxMissing == [TxOk(5, 1300) EXCEPT !.kind = "missing"]
TxElsewhere == [TxOk(6, 1300) EXCEPT !.to = "0xMallory"]
TxWrongAsset == [TxOk(7, 1300) EXCEPT !.asset = "0xOtherToken"]
TxVictim == [TxOk(8, 1300) EXCEPT !.from = "0xVictim"]

NoHeader == [enc |-> "none", hash |-> Nil]
Plain(h) == [enc |-> "plain", hash |-> h]
\* A JSON proof naming the transaction and the payer.
Json(h, payer) == [enc |-> "json", field |-> "tx_hash", hash |-> h, payer |-> payer]
\* A JSON proof carrying the hash under the given field and no payer.
JsonUnder(field, h) == [Json(h, Null) EXCEPT !.field = field]
\* The fields parsePaymentHeader reads the hash from.
PaymentFields == {"tx_hash", "txHash", "transaction_hash"}

Request(x, y, color, agent, header) ==
    [route |-> "POST /pixel", x |-> x, y |-> y, color |-> color, agent_id |-> agent,
     header |-> header]

\* A GET request: only the route and, for /pixel and /price, the coordinates.
GetRequest(route, x, y) ==
    [route |-> route, x |-> x, y |-> y, color |-> Null, agent_id |-> Null,
     header |-> NoHeader]

\* Paid claims on two pixels by two agents, probes with proofs that must not
\* verify, header-less quotes and malformed requests.
PaidRequests ==
    { Request(c[1], c[2], GoodColor, a, Plain(h)) :
        c \in {<<10, 20>>, <<5, 5>>}, a \in Agents, h \in {TxA, TxB} }
ProbeRequests ==
    { Request(10, 20, GoodColor, "agent-B", Plain(h)) :
        h \in {TxShort, TxFailed, TxMissing, TxElsewhere, TxWrongAsset} }
QuoteRequests ==
    { Request(c[1], c[2], GoodColor, "agent-A", NoHeader) : c \in {<<10, 20>>, <<5, 5>>} }
BadRequests ==
    { Request(1000, 0, GoodColor, "agent-A", Plain(TxA)),
      Request(10, 20, "red", "agent-A", Plain(TxA)),
      Request(10, 20, GoodColor, "  ", Plain(TxA)),
      Request(0 - 1, 20, GoodColor, "agent-A", NoHeader) }
\* A proof that names its sender as payer and a transfer somebody else made.
ThirdPartyRequests ==
    { Request(10, 20, GoodColor, "agent-B", Json(TxVictim, "0xAgentB")) }
\* The hash of a paid claim sent again as JSON, under each field.
ReencodedRequests ==
    { Request(5, 5, GoodColor, "agent-B", JsonUnder(f, TxA)) : f \in PaymentFields }
Requests ==
    PaidRequests \cup ProbeRequests \cup QuoteRequests \cup BadRequests
        \cup ThirdPartyRequests \cup ReencodedRequests

GetRequests ==
    { GetRequest(route, 10, 20) :
        route \in {"GET /pixels", "GET /pixel", "GET /price", "GET /stats"} }

\* ------------------------------------------------------------------- state
VARIABLES
    now,            \* the server's clock, in seconds since it started
    devMode,        \* OWNER_WALLET_ADDRESS is the zero address (env not set)
    canvasStore,    \* pixelKey -> PixelData, Nil when the key is absent
    txLedger,       \* sequence of TxRecord
    usedTxHashes,   \* set of tx hashes
    reqs,           \* request id -> the request and where its handler stands
    pixelOwner,     \* contract: pixelId -> owner address, ZERO_ADDRESS by default
    pixelPrice,     \* contract: pixelId -> price, 0 by default
    treasuryBalance,
    lootBalance,
    usdcBalance,    \* the USDC token: address -> balance
    lastCall,       \* contract: the last call, its outcome and the events it emitted
    peer,           \* skill client: what answers at its --api-base
    client,         \* skill client: PixelWarClient and its X402Client
    _store,         \* captcha: challenge_id -> { answer, type, expires_at }, Nil when absent
    timers,         \* captcha: the pending setTimeout deletions
    challenges,     \* captcha: the challenges generateChallenge has returned, by id
    verifications,  \* captcha: the verifyAnswer calls made and what each returned
    strategy,       \* Strategy: its name and the set `claimed` of coordinates tried
    picks           \* Strategy: the calls of pick and reset, with what pick returned

serverVars == <<now, devMode, canvasStore, txLedger, usedTxHashes, reqs>>
contractVars == <<pixelOwner, pixelPrice, treasuryBalance, lootBalance, usdcBalance,
                  lastCall>>
captchaVars == <<_store, timers, challenges, verifications>>
strategyVars == <<strategy, picks>>
sdkVars == <<captchaVars, strategyVars>>
clientVars == <<peer, client, sdkVars>>
vars == <<now, devMode, canvasStore, txLedger, usedTxHashes, reqs,
          pixelOwner, pixelPrice, treasuryBalance, lootBalance, usdcBalance, lastCall,
          peer, client, _store, timers, challenges, verifications, strategy, picks>>

\* ----------------------------------------------------------------- helpers
\* A key that does not tell the pixels apart.
pixelKeyShared(x, y) == <<0, 0>>

pixelKey(x, y) == <<x, y>>

Keys ==
    { pixelKey(r.x, r.y) : r \in Requests }
        \cup { pixelKey(c[1], c[2]) : c \in {<<10, 20>>, <<5, 5>>, <<500, 500>>} }

\* A range check that lets the coordinate CANVAS_SIZE through.
validateCoordsInclusive(x, y) ==
    ~ (x < 0 \/ x > CANVAS_SIZE \/ y < 0 \/ y > CANVAS_SIZE)

validateCoords(x, y) ==
    ~ (x < 0 \/ x >= CANVAS_SIZE \/ y < 0 \/ y >= CANVAS_SIZE)

\* /^#[0-9A-Fa-f]{6}$/ on the sample colours.
validateColor(color) == color \in {GoodColor, "#0000FF"}

\* agent_id is a non-empty string that is not all whitespace.
validAgent(agent_id) == agent_id \notin {Null, "", "  "}

round6Tenths(p, k) == (k * p + 5) \div 10

calcPrice(existing) ==
    IF existing = Nil THEN INITIAL_PRICE
    ELSE round6Tenths(existing.price, PRICE_MULTIPLIER_X10)

\* The text of a header taken as a transaction hash: the chain holds no
\* transaction under it.
HeaderText(header) == [header.hash EXCEPT !.kind = "missing", !.id = 1000 + @]

\* A header that parses as JSON without any of the three fields: the whole
\* header text becomes the tx_hash, a string the chain holds no transaction
\* under.
JsonText(header) == [header.hash EXCEPT !.kind = "missing", !.id = 2000 + @]

\* A parser that keeps the name of the field with the hash it read from it.
parsePaymentHeaderByField(header) ==
    IF header.enc = "base64json" THEN HeaderText(header)
    ELSE IF header.enc = "json" /\ header.field = "txHash"
         THEN [header.hash EXCEPT !.id = 3000 + @]
    ELSE IF header.enc = "json" /\ header.field \notin PaymentFields THEN JsonText(header)
    ELSE header.hash

\* parsePaymentHeader: the tx_hash of a plain header is the header itself,
\* that of a JSON proof is the value of its tx_hash, txHash or
\* transaction_hash field, or the whole header when it has none; base64
\* text is not JSON, so JSON.parse throws and the whole header is taken as
\* the tx_hash.
parsePaymentHeader(header) ==
    IF header.enc = "base64json" THEN HeaderText(header)
    ELSE IF header.enc = "json" /\ header.field \notin PaymentFields THEN JsonText(header)
    ELSE header.hash

\* provider.getTransactionReceipt(txHash): what the chain holds for the hash.
Receipt(h) ==
    IF h.kind = "missing" THEN Nil
    ELSE [status |-> IF h.kind = "failed" THEN 0 ELSE 1,
          logs |-> IF h.kind = "failed" THEN <<>>
                   ELSE << [address |-> h.asset, topic0 |-> TRANSFER_TOPIC,
                            ntopics |-> 3, from |-> h.from, to |-> h.to,
                            data |-> h.amount] >>]

\* receipt.logs.find(...): the first USDC Transfer log to the owner wallet.
MatchingLogs(receipt) ==
    { i \in 1..Len(receipt.logs) :
        /\ receipt.logs[i].address = USDC_ADDRESS
        /\ receipt.logs[i].topic0 = TRANSFER_TOPIC
        /\ receipt.logs[i].ntopics = 3
        /\ receipt.logs[i].to = OWNER_WALLET }

FindLog(receipt) ==
    IF MatchingLogs(receipt) = {} THEN Nil
    ELSE receipt.logs[CHOOSE i \in MatchingLogs(receipt) :
                         \A j \in MatchingLogs(receipt) : i <= j]

\* A verifier that reports a failed transaction as one it did not find.
CheckReceiptVague(receipt, expectedRaw) ==
    IF receipt = Nil \/ receipt.status # 1 THEN "tx not found on chain"
    ELSE IF FindLog(receipt) = Nil THEN "no matching USDC Transfer to owner"
    ELSE IF FindLog(receipt).data < expectedRaw THEN "amount too low"
    ELSE "ok"

\* The checks of verifyPaymentOnChain after the receipt has arrived:
\* "ok" or the rejection reason.
CheckReceipt(receipt, expectedRaw) ==
    IF receipt = Nil THEN "tx not found on chain"
    ELSE IF receipt.status # 1 THEN "tx failed on chain"
    ELSE IF FindLog(receipt) = Nil THEN "no matching USDC Transfer to owner"
    ELSE IF FindLog(receipt).data < expectedRaw THEN "amount too low"
    ELSE "ok"

\* A verifier that accepts a proof without recording its hash.
MarkUsedForgotten(used, h) == used

\* usedTxHashes.add(txHash)
MarkUsed(used, h) == used \cup {h}

\* Lines 357-372: the distribution recorded for a settlement.
Cuts(existing) ==
    IF existing = Nil
    THEN [rebate |-> 0, treasury |-> 0, loot |-> 0, dev |-> 0]
    ELSE [rebate |-> round6Tenths(existing.price, REBATE_RATIO_X10),
          treasury |-> round6Tenths(existing.price, TREASURY_RATIO_X10),
          loot |-> round6Tenths(existing.price, LOOT_RATIO_X10),
          dev |-> round6Tenths(existing.price, DEV_RATIO_X10)]

\* Lines 374-381: the pixel written by a settlement.
NewPixel(rq, price_usdc) ==
    [owner |-> rq.agent_id, color |-> rq.color, price |-> price_usdc,
     tx_hash |-> parsePaymentHeader(rq.header)]

\* Lines 385-396: the ledger record of a settlement.
TxRecord(rq, existing, price_usdc) ==
    [x |-> rq.x, y |-> rq.y, buyer |-> rq.agent_id,
     seller |-> IF existing = Nil THEN Null ELSE existing.owner,
     price_paid |-> price_usdc,
     tx_hash |-> parsePaymentHeader(rq.header),
     rebate_to_previous_owner |-> Cuts(existing).rebate,
     treasury_cut |-> Cuts(existing).treasury,
     loot_cut |-> Cuts(existing).loot,
     dev_cut |-> Cuts(existing).dev]

\* ------------------------------------------------------------ request slots
\* rpc is how getTransactionReceipt ended for the handler ("none" before),
\* body the JSON a GET answers with, at the time the handler started (every
\* handler builds its slot from Fresh when it starts).
Fresh == [pc |-> "new", req |-> Nil, existing |-> Nil, price_usdc |-> 0,
          rpc |-> "none", status |-> 0, reason |-> Null, body |-> Nil, at |-> now]

Respond(r, status, reason) ==
    [r EXCEPT !.pc = "done", !.status = status, !.reason = reason]

ReqIds == 1..MaxReq

ServerInit ==
    /\ now = 0
    /\ devMode \in BOOLEAN
    /\ canvasStore = [k \in Keys |-> Nil]
    /\ txLedger = <<>>
    /\ usedTxHashes = {}
    /\ reqs = [i \in ReqIds |-> Fresh]

\* Request i reaches the server and its handler starts: requests are numbered
\* in the order their handlers start.
Arrives(i) ==
    /\ reqs[i].pc = "new"
    /\ IF i = 1 THEN TRUE ELSE reqs[i - 1].pc # "new"

\* The request as the handler holds it from line 309 on.
Read(rq) ==
    [Fresh EXCEPT !.req = rq,
                  !.existing = canvasStore[pixelKey(rq.x, rq.y)],
                  !.price_usdc = calcPrice(canvasStore[pixelKey(rq.x, rq.y)])]

\* Lines 293-305: 400 for bad coordinates, colour or agent_id.
InputError(rq) ==
    IF ~ validateCoords(rq.x, rq.y) THEN "Coordinates out of range"
    ELSE IF ~ validateColor(rq.color) THEN "Invalid color"
    ELSE IF ~ validAgent(rq.agent_id) THEN "agent_id is required"
    ELSE "none"

HandleInvalid(i, rq) ==
    /\ Arrives(i)
    /\ InputError(rq) # "none"
    /\ reqs' = [reqs EXCEPT ![i] = Respond([Fresh EXCEPT !.req = rq], 400, InputError(rq))]
    /\ UNCHANGED <<now, devMode, canvasStore, txLedger, usedTxHashes, contractVars, clientVars>>

\* A quote that also holds the pixel for the agent it quoted.
HandleQuoteHolding(i, rq) ==
    /\ Arrives(i)
    /\ InputError(rq) = "none"
    /\ rq.header = NoHeader
    /\ reqs' = [reqs EXCEPT ![i] = Respond(Read(rq), 402, "Payment Required")]
    /\ canvasStore' = [canvasStore EXCEPT ![pixelKey(rq.x, rq.y)] =
                          [owner |-> rq.agent_id, color |-> rq.color,
                           price |-> calcPrice(canvasStore[pixelKey(rq.x, rq.y)]),
                           tx_hash |-> Nil]]
    /\ UNCHANGED <<now, devMode, txLedger, usedTxHashes, contractVars, clientVars>>

\* Lines 307-344: no X-PAYMENT header, 402 with the price of the moment.
HandleQuote(i, rq) ==
    /\ Arrives(i)
    /\ InputError(rq) = "none"
    /\ rq.header = NoHeader
    /\ reqs' = [reqs EXCEPT ![i] = Respond(Read(rq), 402, "Payment Required")]
    /\ UNCHANGED <<now, devMode, canvasStore, txLedger, usedTxHashes, contractVars, clientVars>>

\* A verifier that looks the transaction up before the anti-replay check.
HandleReplayAfterLookup(i, rq) ==
    /\ Arrives(i)
    /\ InputError(rq) = "none"
    /\ rq.header # NoHeader
    /\ parsePaymentHeader(rq.header) \in usedTxHashes
    /\ reqs' = [reqs EXCEPT ![i] = [Read(rq) EXCEPT !.pc = "awaitReceipt"]]
    /\ UNCHANGED <<now, devMode, canvasStore, txLedger, usedTxHashes, contractVars, clientVars>>

\* Lines 142-145 and 350-355: the anti-replay check.
HandleReplay(i, rq) ==
    /\ Arrives(i)
    /\ InputError(rq) = "none"
    /\ rq.header # NoHeader
    /\ parsePaymentHeader(rq.header) \in usedTxHashes
    /\ reqs' = [reqs EXCEPT ![i] = Respond(Read(rq), 402, "tx_hash already used")]
    /\ UNCHANGED <<now, devMode, canvasStore, txLedger, usedTxHashes, contractVars, clientVars>>

\* A write that stores the pixel at the price quoted from the canvas as it is
\* at the time of the write, while the ledger records the price read earlier.
WriteRequoted(r) ==
    /\ canvasStore' = [canvasStore EXCEPT
                          ![pixelKey(r.req.x, r.req.y)] =
                              NewPixel(r.req, calcPrice(canvasStore[pixelKey(r.req.x, r.req.y)]))]
    /\ txLedger' = Append(txLedger, TxRecord(r.req, r.existing, r.price_usdc))

\* A write that keeps only the latest entry of the pixel in the ledger.
WriteLatestOnly(r) ==
    /\ canvasStore' = [canvasStore EXCEPT
                          ![pixelKey(r.req.x, r.req.y)] = NewPixel(r.req, r.price_usdc)]
    /\ txLedger' = Append(SelectSeq(txLedger, LAMBDA e : e.x # r.req.x \/ e.y # r.req.y),
                          TxRecord(r.req, r.existing, r.price_usdc))

\* Lines 357-410: canvas write, ledger append and the 200 response of the
\* handler r, for the `existing` and `price_usdc` it read at lines 308-309.
Write(r) ==
    /\ canvasStore' = [canvasStore EXCEPT
                          ![pixelKey(r.req.x, r.req.y)] = NewPixel(r.req, r.price_usdc)]
    /\ txLedger' = Append(txLedger, TxRecord(r.req, r.existing, r.price_usdc))

Settle(i, r) ==
    /\ Write(r)
    /\ reqs' = [reqs EXCEPT ![i] = Respond(r, 200, "success")]

\* Lines 147-152: with the zero owner wallet the proof is accepted unseen.
\* Nothing is awaited before the write but the already resolved promise of
\* verifyPaymentOnChain, so no other handler runs in between.
HandleDevSettle(i, rq) ==
    /\ Arrives(i)
    /\ InputError(rq) = "none"
    /\ rq.header # NoHeader
    /\ parsePaymentHeader(rq.header) \notin usedTxHashes
    /\ devMode
    /\ usedTxHashes' = MarkUsed(usedTxHashes, parsePaymentHeader(rq.header))
    /\ Settle(i, Read(rq))
    /\ UNCHANGED <<now, devMode, contractVars, clientVars>>

\* Lines 154-156: the handler is suspended at getTransactionReceipt, holding
\* the `existing` and `price_usdc` it read before.
HandleSuspend(i, rq) ==
    /\ Arrives(i)
    /\ InputError(rq) = "none"
    /\ rq.header # NoHeader
    /\ parsePaymentHeader(rq.header) \notin usedTxHashes
    /\ ~ devMode
    /\ reqs' = [reqs EXCEPT ![i] = [Read(rq) EXCEPT !.pc = "awaitReceipt"]]
    /\ UNCHANGED <<now, devMode, canvasStore, txLedger, usedTxHashes, contractVars, clientVars>>

\* A catch branch that lets the claim through when the lookup throws.
ResumeThrowFailOpen(i) ==
    /\ reqs[i].pc = "awaitReceipt"
    /\ usedTxHashes' = MarkUsed(usedTxHashes, parsePaymentHeader(reqs[i].req.header))
    /\ Settle(i, [reqs[i] EXCEPT !.rpc = "threw"])
    /\ UNCHANGED <<now, devMode, contractVars, clientVars>>

\* Lines 184-188: the lookup throws.
ResumeThrow(i) ==
    /\ reqs[i].pc = "awaitReceipt"
    /\ reqs' = [reqs EXCEPT ![i] = Respond([@ EXCEPT !.rpc = "threw"], 402, "rpc error")]
    /\ UNCHANGED <<now, devMode, canvasStore, txLedger, usedTxHashes, contractVars, clientVars>>

\* A verifier that marks the hash used as soon as the receipt has arrived,
\* whatever the verdict.
ResumeRejectMarksUsed(i) ==
    LET verdict == CheckReceipt(Receipt(parsePaymentHeader(reqs[i].req.header)),
                                reqs[i].price_usdc)
    IN
    /\ reqs[i].pc = "awaitReceipt"
    /\ verdict # "ok"
    /\ usedTxHashes' = MarkUsed(usedTxHashes, parsePaymentHeader(reqs[i].req.header))
    /\ reqs' = [reqs EXCEPT ![i] = Respond([@ EXCEPT !.rpc = "receipt"], 402, verdict)]
    /\ UNCHANGED <<now, devMode, canvasStore, txLedger, contractVars, clientVars>>

\* A handler that has written the claim before the verdict is known.
ResumeRejectWritten(i) ==
    LET verdict == CheckReceipt(Receipt(parsePaymentHeader(reqs[i].req.header)),
                                reqs[i].price_usdc)
    IN
    /\ reqs[i].pc = "awaitReceipt"
    /\ verdict # "ok"
    /\ Write(reqs[i])
    /\ reqs' = [reqs EXCEPT ![i] = Respond([@ EXCEPT !.rpc = "receipt"], 402, verdict)]
    /\ UNCHANGED <<now, devMode, usedTxHashes, contractVars, clientVars>>

\* Lines 158-180: the receipt arrives and a check fails.
ResumeReject(i) ==
    LET verdict == CheckReceipt(Receipt(parsePaymentHeader(reqs[i].req.header)),
                                reqs[i].price_usdc)
    IN
    /\ reqs[i].pc = "awaitReceipt"
    /\ verdict # "ok"
    /\ reqs' = [reqs EXCEPT ![i] = Respond([@ EXCEPT !.rpc = "receipt"], 402, verdict)]
    /\ UNCHANGED <<now, devMode, canvasStore, txLedger, usedTxHashes, contractVars, clientVars>>

\* Lines 182-183 and 357-410: the receipt arrives, the checks pass, the hash
\* is marked used and the claim is settled.
ResumeSettle(i) ==
    LET verdict == CheckReceipt(Receipt(parsePaymentHeader(reqs[i].req.header)),
                                reqs[i].price_usdc)
    IN
    /\ reqs[i].pc = "awaitReceipt"
    /\ verdict = "ok"
    /\ usedTxHashes' = MarkUsed(usedTxHashes, parsePaymentHeader(reqs[i].req.header))
    /\ Settle(i, [reqs[i] EXCEPT !.rpc = "receipt"])
    /\ UNCHANGED <<now, devMode, contractVars, clientVars>>

\* ------------------------------------------------------------ GET routes
Occupied == { k \in Keys : canvasStore[k] # Nil }

Max(S) == CHOOSE m \in S : \A n \in S : n <= m

Answer(rq, body) == [Respond([Fresh EXCEPT !.req = rq], 200, "ok") EXCEPT !.body = body]

\* GET /pixels: total and the page of occupied pixels.
GetPixels(i, rq) ==
    /\ Arrives(i)
    /\ rq.route = "GET /pixels"
    /\ reqs' = [reqs EXCEPT ![i] =
                   Answer(rq, [total |-> Cardinality(Occupied),
                               pixels |-> { [x |-> k[1], y |-> k[2],
                                             owner |-> canvasStore[k].owner,
                                             price |-> canvasStore[k].price] : k \in Occupied }])]
    /\ UNCHANGED <<now, devMode, canvasStore, txLedger, usedTxHashes, contractVars, clientVars>>

\* GET /pixel/:x/:y: the pixel or the default state.
GetPixel(i, rq) ==
    LET data == canvasStore[pixelKey(rq.x, rq.y)] IN
    /\ Arrives(i)
    /\ rq.route = "GET /pixel"
    /\ reqs' = [reqs EXCEPT ![i] =
                   IF ~ validateCoords(rq.x, rq.y)
                   THEN Respond([Fresh EXCEPT !.req = rq], 400, "Coordinates out of range")
                   ELSE IF data = Nil
                   THEN Answer(rq, [owner |-> Null, price |-> INITIAL_PRICE, occupied |-> FALSE])
                   ELSE Answer(rq, [owner |-> data.owner, price |-> data.price,
                                    occupied |-> TRUE])]
    /\ UNCHANGED <<now, devMode, canvasStore, txLedger, usedTxHashes, contractVars, clientVars>>

\* GET /price/:x/:y: the price of the next claim.
GetPrice(i, rq) ==
    LET existing == canvasStore[pixelKey(rq.x, rq.y)] IN
    /\ Arrives(i)
    /\ rq.route = "GET /price"
    /\ reqs' = [reqs EXCEPT ![i] =
                   IF ~ validateCoords(rq.x, rq.y)
                   THEN Respond([Fresh EXCEPT !.req = rq], 400, "Coordinates out of range")
                   ELSE Answer(rq, [price_usdc |-> calcPrice(existing),
                                    occupied |-> existing # Nil,
                                    current_owner |-> IF existing = Nil THEN Null
                                                      ELSE existing.owner])]
    /\ UNCHANGED <<now, devMode, canvasStore, txLedger, usedTxHashes, contractVars, clientVars>>

\* GET /stats: occupancy, the highest price and the highest purchase count.
GetStats(i, rq) ==
    LET count(a) == Cardinality({ k \in 1..Len(txLedger) : txLedger[k].buyer = a })
    IN
    /\ Arrives(i)
    /\ rq.route = "GET /stats"
    /\ reqs' = [reqs EXCEPT ![i] =
                   Answer(rq, [total_occupied |-> Cardinality(Occupied),
                               most_expensive |-> IF Occupied = {} THEN 0
                                                  ELSE Max({ canvasStore[k].price : k \in Occupied }),
                               tx_count |-> Max({ count(a) : a \in Agents })])]
    /\ UNCHANGED <<now, devMode, canvasStore, txLedger, usedTxHashes, contractVars, clientVars>>

\* ------------------------------------------------------------ the contract
DEV_WALLET == "0xDev"
LOOT_POOL == "0xLoot"
TREASURY_CONTRACT == "0xTreasuryContract"
\* Ownable(msg.sender): the deployer, the server's hot wallet.
CONTRACT_OWNER == "0xDeployer"

Addresses ==
    Agents \cup {OWNER_WALLET, DEV_WALLET, LOOT_POOL, TREASURY_CONTRACT, CONTRACT_OWNER}

\* _encodePixelId; the require is CoordsEncodable.
CoordsEncodable(x, y) == x < MAX_COORD /\ y < MAX_COORD
encodePixelId(x, y) == x * MAX_COORD + y

\* The ids of the sample coordinates that are uint256 pairs passing the
\* require.
PixelIds ==
    { encodePixelId(k[1], k[2]) :
        k \in { q \in Keys : q[1] >= 0 /\ q[2] >= 0 /\ CoordsEncodable(q[1], q[2]) } }

getPixelPrice(pixelId) ==
    IF pixelPrice[pixelId] = 0 THEN BASE_PRICE ELSE pixelPrice[pixelId]

\* A split that gives the treasury its basis-point share like the others.
DistributionByShares(amount, previousOwner) ==
    LET share(bps) == (amount * bps) \div BPS_DENOMINATOR
    IN [rebate |-> IF previousOwner # ZERO_ADDRESS THEN share(REBATE_BPS) ELSE 0,
        treasury |-> IF previousOwner # ZERO_ADDRESS THEN share(TREASURY_BPS)
                     ELSE share(TREASURY_BPS + REBATE_BPS),
        loot |-> share(LOOT_BPS),
        dev |-> share(DEV_BPS)]

\* A split that leaves the rounding remainder to the previous owner.
DistributionRemainderToRebate(amount, previousOwner) ==
    LET share(bps) == (amount * bps) \div BPS_DENOMINATOR
    IN IF previousOwner # ZERO_ADDRESS
       THEN [rebate |-> amount - share(TREASURY_BPS) - share(LOOT_BPS) - share(DEV_BPS),
             treasury |-> share(TREASURY_BPS),
             loot |-> share(LOOT_BPS),
             dev |-> share(DEV_BPS)]
       ELSE [rebate |-> 0,
             treasury |-> amount - share(LOOT_BPS) - share(DEV_BPS),
             loot |-> share(LOOT_BPS),
             dev |-> share(DEV_BPS)]

\* _distribute: the four amounts.
Distribution(amount, previousOwner) ==
    LET devAmount == (amount * DEV_BPS) \div BPS_DENOMINATOR
        lootAmount == (amount * LOOT_BPS) \div BPS_DENOMINATOR
        rebateAmount == IF previousOwner # ZERO_ADDRESS
                        THEN (amount * REBATE_BPS) \div BPS_DENOMINATOR
                        ELSE 0
    IN [rebate |-> rebateAmount,
        treasury |-> amount - rebateAmount - lootAmount - devAmount,
        loot |-> lootAmount,
        dev |-> devAmount]

\* usdc.safeTransfer(to, amount) from `from`, on the balances bal.
Transfer(bal, from, to, amount) ==
    IF from = to THEN bal
    ELSE [bal EXCEPT ![from] = @ - amount, ![to] = @ + amount]

\* The balances after _distribute's transfers out of the contract.
Distributed(bal, amount, previousOwner) ==
    LET d == Distribution(amount, previousOwner)
        afterRebate == IF previousOwner # ZERO_ADDRESS
                       THEN Transfer(bal, TREASURY_CONTRACT, previousOwner, d.rebate)
                       ELSE bal
    IN Transfer(afterRebate, TREASURY_CONTRACT, DEV_WALLET, d.dev)

\* The record of a call: who called what with which arguments, whether it
\* returned (ok) or reverted, and for a call that returned the previousOwner
\* of PixelCaptured and the four amounts of PaymentDistributed.
NoEvent == [rebate |-> 0, treasury |-> 0, loot |-> 0, dev |-> 0]

Call(fn, sender, x, y, amount, buyer, ok, previousOwner, dist) ==
    [n |-> lastCall.n + 1, fn |-> fn, sender |-> sender, x |-> x, y |-> y,
     amount |-> amount, buyer |-> buyer, ok |-> ok,
     previousOwner |-> previousOwner, dist |-> dist]

Reverted(fn, sender, x, y, amount, buyer) ==
    /\ lastCall' = Call(fn, sender, x, y, amount, buyer, FALSE, ZERO_ADDRESS, NoEvent)
    /\ UNCHANGED <<pixelOwner, pixelPrice, treasuryBalance, lootBalance, usdcBalance>>

ContractInit ==
    /\ pixelOwner = [id \in PixelIds |-> ZERO_ADDRESS]
    /\ pixelPrice = [id \in PixelIds |-> 0]
    /\ treasuryBalance = 0
    /\ lootBalance = 0
    /\ usdcBalance = [a \in Addresses |-> IF a \in Agents THEN InitialFunds ELSE 0]
    /\ lastCall = [n |-> 0, fn |-> "constructor", sender |-> CONTRACT_OWNER, x |-> 0,
                   y |-> 0, amount |-> 0, buyer |-> ZERO_ADDRESS, ok |-> TRUE,
                   previousOwner |-> ZERO_ADDRESS, dist |-> NoEvent]

\* A capturePixel without the "Already own this pixel" require.
capturePixelUnguarded(sender, x, y, amount) ==
    LET pixelId == encodePixelId(x, y)
        previousOwner == pixelOwner[pixelId]
        d == Distribution(amount, previousOwner)
    IN
    /\ CoordsEncodable(x, y)
    /\ pixelId \in PixelIds
    /\ amount >= getPixelPrice(pixelId)
    /\ usdcBalance[sender] >= amount
    /\ usdcBalance' = Distributed(Transfer(usdcBalance, sender, TREASURY_CONTRACT, amount),
                                  amount, previousOwner)
    /\ lootBalance' = lootBalance + d.loot
    /\ treasuryBalance' = treasuryBalance + d.treasury
    /\ pixelOwner' = [pixelOwner EXCEPT ![pixelId] = sender]
    /\ pixelPrice' = [pixelPrice EXCEPT ![pixelId] =
                         (amount * PRICE_MULTIPLIER_BPS) \div BPS_DENOMINATOR]
    /\ lastCall' = Call("capturePixel", sender, x, y, amount, sender, TRUE, previousOwner, d)

\* capturePixel(x, y, amount) sent by `sender`, who has approved the contract
\* for the amount, when every require holds and the transfer is covered.
capturePixel(sender, x, y, amount) ==
    LET pixelId == encodePixelId(x, y)
        previousOwner == pixelOwner[pixelId]
        d == Distribution(amount, previousOwner)
    IN
    /\ CoordsEncodable(x, y)
    /\ pixelId \in PixelIds
    /\ amount >= getPixelPrice(pixelId)
    /\ previousOwner # sender
    /\ usdcBalance[sender] >= amount
    /\ usdcBalance' = Distributed(Transfer(usdcBalance, sender, TREASURY_CONTRACT, amount),
                                  amount, previousOwner)
    /\ lootBalance' = lootBalance + d.loot
    /\ treasuryBalance' = treasuryBalance + d.treasury
    /\ pixelOwner' = [pixelOwner EXCEPT ![pixelId] = sender]
    /\ pixelPrice' = [pixelPrice EXCEPT ![pixelId] =
                         (amount * PRICE_MULTIPLIER_BPS) \div BPS_DENOMINATOR]
    /\ lastCall' = Call("capturePixel", sender, x, y, amount, sender, TRUE, previousOwner, d)

\* capturePixel when a require fails or the transfer is not covered: the
\* call reverts and the storage keeps its values.
capturePixelReverts(sender, x, y, amount) ==
    /\ \/ ~ CoordsEncodable(x, y)
       \/ amount < getPixelPrice(encodePixelId(x, y))
       \/ pixelOwner[encodePixelId(x, y)] = sender
       \/ usdcBalance[sender] < amount
    /\ Reverted("capturePixel", sender, x, y, amount, sender)

\* recordCapture(x, y, amount, buyer) sent by `sender`: onlyOwner, and the
\* contract must hold the amount.
recordCapture(sender, x, y, amount, buyer) ==
    LET pixelId == encodePixelId(x, y)
        previousOwner == pixelOwner[pixelId]
        d == Distribution(amount, previousOwner)
    IN
    /\ sender = CONTRACT_OWNER
    /\ CoordsEncodable(x, y)
    /\ pixelId \in PixelIds
    /\ usdcBalance[TREASURY_CONTRACT] >= amount
    /\ usdcBalance' = Distributed(usdcBalance, amount, previousOwner)
    /\ lootBalance' = lootBalance + d.loot
    /\ treasuryBalance' = treasuryBalance + d.treasury
    /\ pixelOwner' = [pixelOwner EXCEPT ![pixelId] = buyer]
    /\ pixelPrice' = [pixelPrice EXCEPT ![pixelId] =
                         (amount * PRICE_MULTIPLIER_BPS) \div BPS_DENOMINATOR]
    /\ lastCall' = Call("recordCapture", sender, x, y, amount, buyer, TRUE, previousOwner, d)

recordCaptureReverts(sender, x, y, amount, buyer) ==
    /\ \/ sender # CONTRACT_OWNER
       \/ ~ CoordsEncodable(x, y)
       \/ usdcBalance[TREASURY_CONTRACT] < amount
    /\ Reverted("recordCapture", sender, x, y, amount, buyer)

\* The direct USDC transfer of the x402 flow: `sender` pays the contract
\* before the server records the capture.
usdcTransfer(sender, amount) ==
    /\ usdcBalance[sender] >= amount
    /\ usdcBalance' = Transfer(usdcBalance, sender, TREASURY_CONTRACT, amount)
    /\ lastCall' = Call("usdc.transfer", sender, 0, 0, amount, ZERO_ADDRESS, TRUE,
                        ZERO_ADDRESS, NoEvent)
    /\ UNCHANGED <<pixelOwner, pixelPrice, treasuryBalance, lootBalance>>

\* --------------------------------------------------------- the skill client
\* What answers at the client's --api-base: this backend, or another server.
ThisServer == "backend/server.js"
OtherServer == "another server"

ClientAgent == "agent-A"
Budgets == {1500, 2500}
Targets == {<<10, 20>>, <<5, 5>>, <<500, 500>>, <<1000, 0>>}
NoTarget == <<>>

\* The value of the X-Payment-Required header of a response.
NoDetails == [present |-> FALSE, decodes |-> FALSE, amount |-> 0]
Garbled == [present |-> TRUE, decodes |-> FALSE, amount |-> 0]
Details(amount) == [present |-> TRUE, decodes |-> TRUE, amount |-> amount]

\* What fetch gives the client: a response, or a thrown network error.
Response(status, details) == [threw |-> FALSE, status |-> status, details |-> details]
NetworkError == [threw |-> TRUE, status |-> 0, details |-> NoDetails]
NoResponse == Response(0, NoDetails)

\* The value claimPixel returns.
Result(success, amount, reason) ==
    [returned |-> TRUE, success |-> success, amount |-> amount, reason |-> reason]
NoResult == [returned |-> FALSE, success |-> FALSE, amount |-> 0, reason |-> Null]

\* #testPayment: a proof with a made-up tx_hash, the n-th of the run.
NoProof == [tx_hash |-> Nil, amount |-> 0]
TestProof(n, amount) ==
    [tx_hash |-> [TxOk(200 + n, amount) EXCEPT !.kind = "missing"], amount |-> amount]

\* encodeHeader(proof): base64 of the proof's JSON.
encodeHeader(proof) == [enc |-> "base64json", hash |-> proof.tx_hash]

\* The POST the client sends: agent id in the X-Agent-Id header, only the
\* colour in the body.
ClientRequest(target, header) == Request(target[1], target[2], GoodColor, Null, header)

\* PixelWarClient and X402Client as constructed.
Constructed(budget, realMode, dryRun) ==
    [pc |-> "start", budget |-> budget, realMode |-> realMode, dryRun |-> dryRun,
     spent |-> 0, claimed |-> 0, failed |-> 0, round |-> 0,
     target |-> NoTarget, maxAmount |-> 0, res |-> NoResponse,
     proof |-> NoProof, proofs |-> <<>>, result |-> NoResult,
     canvas |-> {}, stats |-> [heatmap |-> <<>>, loaded |-> FALSE]]

ClientInit ==
    /\ peer \in {ThisServer, OtherServer}
    /\ client \in { Constructed(b, rm, dr) : b \in Budgets, rm \in BOOLEAN, dr \in BOOLEAN }

\* No client is run.
ClientIdle ==
    /\ peer = ThisServer
    /\ client = [Constructed(1500, FALSE, FALSE) EXCEPT !.pc = "idle"]

\* ------------------------------------------------------- the Strategy class
STRATEGIES == {"random", "center", "edge", "heatmap"}
WIDTH == 1000
HEIGHT == 1000
CENTER_MIN == 400
CENTER_MAX == 600
BORDER == 50

\* The coordinates that stand for the canvas: two on the border, one in the
\* centre zone.
Samples == {<<10, 20>>, <<5, 5>>, <<500, 500>>}

\* What a pair of #randInt draws over the given ranges can come up with.
Draws(xmin, xmax, ymin, ymax) ==
    { c \in Samples : xmin <= c[1] /\ c[1] <= xmax /\ ymin <= c[2] /\ c[2] <= ymax }

\* canvas.pixels as loaded from GET /pixels, and #buildOwnedSet on it.
Pixel(x, y, owner) == [x |-> x, y |-> y, owner |-> owner]
Canvases ==
    { {},
      {Pixel(10, 20, "agent-B")},
      {Pixel(10, 20, "agent-B"), Pixel(5, 5, Null), Pixel(500, 500, "agent-B")} }
buildOwnedSet(canvas) == { <<p.x, p.y>> : p \in { q \in canvas : q.owner # Null } }

\* stats as loaded from GET /stats: none, an empty heatmap, one that names
\* a pixel twice, one that names a pixel outside the canvas.
Hot(x, y, claim_count) == [x |-> x, y |-> y, claim_count |-> claim_count]
NoStats == [heatmap |-> <<>>, loaded |-> FALSE]
Stats(heatmap) == [heatmap |-> heatmap, loaded |-> TRUE]
StatsSamples ==
    { NoStats,
      Stats(<<>>),
      Stats(<<Hot(10, 20, 3), Hot(5, 5, 7), Hot(10, 20, 1)>>),
      Stats(<<Hot(1000, 0, 9), Hot(5, 5, 2)>>) }

\* #tried and a #markTried that forgets, then #markTried.
tried(claimed, c) == c \in claimed
markTriedForgets(claimed, c) == claimed
markTried(claimed, c) == claimed \cup {c}

\* One retry loop over draws, of which it keeps those in ok: the draws it
\* accepts, and whether all its attempts can be rejected (some draw is one
\* it rejects).
Accepted(draws, ok) == draws \cap ok
CanFail(draws, ok) == draws \ ok # {}

\* #random: unowned untried pixels first, then any untried pixel, then null.
random(claimed, canvas) ==
    LET owned == buildOwnedSet(canvas)
        all == Draws(0, WIDTH - 1, 0, HEIGHT - 1)
        first == { c \in Samples : ~ tried(claimed, c) /\ c \notin owned }
        second == { c \in Samples : ~ tried(claimed, c) }
    IN Accepted(all, first)
         \cup IF CanFail(all, first)
              THEN Accepted(all, second)
                     \cup IF CanFail(all, second) THEN {NoTarget} ELSE {}
              ELSE {}

\* #center: the same two loops over the 400-600 zone, then #random.
center(claimed, canvas) ==
    LET owned == buildOwnedSet(canvas)
        zone == Draws(CENTER_MIN, CENTER_MAX, CENTER_MIN, CENTER_MAX)
        first == { c \in Samples : ~ tried(claimed, c) /\ c \notin owned }
        second == { c \in Samples : ~ tried(claimed, c) }
    IN Accepted(zone, first)
         \cup IF CanFail(zone, first)
              THEN Accepted(zone, second)
                     \cup IF CanFail(zone, second) THEN random(claimed, canvas) ELSE {}
              ELSE {}

isEdge(c) == c[1] < BORDER \/ c[1] >= WIDTH - BORDER \/ c[2] < BORDER \/ c[2] >= HEIGHT - BORDER

\* #edge: draws on the four sides, then draws over the whole canvas that
\* are kept when on the border, then #random.
edge(claimed, canvas) ==
    LET owned == buildOwnedSet(canvas)
        sides == Draws(0, BORDER - 1, 0, HEIGHT - 1)
                   \cup Draws(WIDTH - BORDER, WIDTH - 1, 0, HEIGHT - 1)
                   \cup Draws(0, WIDTH - 1, 0, BORDER - 1)
                   \cup Draws(0, WIDTH - 1, HEIGHT - BORDER, HEIGHT - 1)
        all == Draws(0, WIDTH - 1, 0, HEIGHT - 1)
        first == { c \in Samples : ~ tried(claimed, c) /\ c \notin owned /\ isEdge(c) }
        second == { c \in Samples : isEdge(c) /\ ~ tried(claimed, c) }
    IN Accepted(sides, first)
         \cup IF CanFail(sides, first)
              THEN Accepted(all, second)
                     \cup IF CanFail(all, second) THEN random(claimed, canvas) ELSE {}
              ELSE {}

\* The position of entry i after the stable sort by claim_count, descending.
Rank(h, i) ==
    1 + Cardinality({ j \in 1..Len(h) :
                        \/ h[j].claim_count > h[i].claim_count
                        \/ h[j].claim_count = h[i].claim_count /\ j < i })

\* #heatmap: the hottest pixel not tried yet; #center when there is no
\* heatmap or all of it has been tried.
heatmap(claimed, canvas, stats) ==
    LET h == stats.heatmap
        untried == { i \in 1..Len(h) : ~ tried(claimed, <<h[i].x, h[i].y>>) }
    IN IF Len(h) = 0 \/ untried = {} THEN center(claimed, canvas)
       ELSE LET i == CHOOSE k \in untried : \A j \in untried : Rank(h, k) <= Rank(h, j)
            IN {<<h[i].x, h[i].y>>}

\* pick(canvas, stats): every value the call can return.
pick(name, claimed, canvas, stats) ==
    IF name = "center" THEN center(claimed, canvas)
    ELSE IF name = "edge" THEN edge(claimed, canvas)
    ELSE IF name = "heatmap" THEN heatmap(claimed, canvas, stats)
    ELSE random(claimed, canvas)

\* new Strategy(name)
NewStrategy(name) == [name |-> name, claimed |-> {}]

StrategyInit ==
    /\ strategy \in { NewStrategy(name) : name \in STRATEGIES }
    /\ picks = <<>>

\* No strategy is in use.
StrategyIdle ==
    /\ strategy = NewStrategy("random")
    /\ picks = <<>>

\* ------------------------------------------------------- the reverse CAPTCHA
\* generateChallenge's default ttlMs and the extra delay of its clean-up timer.
TTL_MS == 5000
GC_DELAY_MS == 1000

ChallengeIds == 1..MaxChallenges

\* What the three generators can come up with: a type and the answer.
ChallengeData ==
    { [type |-> "math_prime", answer |-> "101"],
      [type |-> "pattern_sequence", answer |-> "25"] }

\* Answers sent to verifyAnswer, and String(answer).trim().toLowerCase() on
\* them.
SentAnswers == {" 101 ", "103"}
Normalized(answer) == IF answer = " 101 " THEN "101" ELSE answer

\* _issueToken(challengeId, type): the payload the token encodes.
issueToken(challenge_id, type) == [challenge_id |-> challenge_id, type |-> type, at |-> now]
NoToken == [challenge_id |-> 0, type |-> Null, at |-> 0]

CaptchaInit ==
    /\ _store = [id \in ChallengeIds |-> Nil]
    /\ timers = {}
    /\ challenges = <<>>
    /\ verifications = <<>>

Init == ServerInit /\ ContractInit /\ ClientIdle /\ CaptchaInit /\ StrategyIdle

Next ==
    \/ \E i \in ReqIds, rq \in Requests : HandleInvalid(i, rq)
    \/ \E i \in ReqIds, rq \in Requests : HandleQuote(i, rq)
    \/ \E i \in ReqIds, rq \in Requests : HandleReplay(i, rq)
    \/ \E i \in ReqIds, rq \in Requests : HandleDevSettle(i, rq)
    \/ \E i \in ReqIds, rq \in Requests : HandleSuspend(i, rq)
    \/ \E i \in ReqIds : ResumeThrow(i)
    \/ \E i \in ReqIds : ResumeReject(i)
    \/ \E i \in ReqIds : ResumeSettle(i)
    \/ \E i \in ReqIds, rq \in GetRequests : GetPixels(i, rq)
    \/ \E i \in ReqIds, rq \in GetRequests : GetPixel(i, rq)
    \/ \E i \in ReqIds, rq \in GetRequests : GetPrice(i, rq)
    \/ \E i \in ReqIds, rq \in GetRequests : GetStats(i, rq)

Spec == Init /\ [][Next]_vars

\* ------------------------------------------------ the server, with fairness
\* The event loop runs the handler of a request that has arrived up to its
\* first await.  The answer of getTransactionReceipt comes from the RPC
\* node; verifyPaymentOnChain awaits it with no timer of its own, so nothing
\* in the server makes a suspended handler resume.
HandlerStarts ==
    \/ \E i \in ReqIds, rq \in Requests :
          \/ HandleInvalid(i, rq)
          \/ HandleQuote(i, rq)
          \/ HandleReplay(i, rq)
          \/ HandleDevSettle(i, rq)
          \/ HandleSuspend(i, rq)
    \/ \E i \in ReqIds, rq \in GetRequests :
          \/ GetPixels(i, rq)
          \/ GetPixel(i, rq)
          \/ GetPrice(i, rq)
          \/ GetStats(i, rq)

SpecLive == Init /\ [][Next]_vars /\ WF_vars(HandlerStarts)

\* --------------------------------------------------- the server with a clock
\* Time passes between two steps of the server.
Tick ==
    /\ now + TickSeconds <= MaxClock
    /\ now' = now + TickSeconds
    /\ UNCHANGED <<devMode, canvasStore, txLedger, usedTxHashes, reqs,
                   contractVars, clientVars>>

NextTimed == Next \/ Tick

SpecTimed == Init /\ [][NextTimed]_vars

\* A withdrawTreasury without the onlyOwner modifier.
withdrawTreasuryByAnyone(sender, to, amount) ==
    LET withdrawAmount == IF amount = 0 THEN treasuryBalance ELSE amount
    IN
    /\ to # ZERO_ADDRESS
    /\ withdrawAmount <= treasuryBalance
    /\ usdcBalance[TREASURY_CONTRACT] >= withdrawAmount
    /\ treasuryBalance' = treasuryBalance - withdrawAmount
    /\ usdcBalance' = Transfer(usdcBalance, TREASURY_CONTRACT, to, withdrawAmount)
    /\ lastCall' = Call("withdrawTreasury", sender, 0, 0, amount, to, TRUE,
                        ZERO_ADDRESS, NoEvent)
    /\ UNCHANGED <<pixelOwner, pixelPrice, lootBalance>>

\* withdrawTreasury(to, amount) sent by `sender`: onlyOwner, amount 0 is the
\* whole treasuryBalance; safeTransfer needs the contract to hold the amount.
withdrawTreasury(sender, to, amount) ==
    LET withdrawAmount == IF amount = 0 THEN treasuryBalance ELSE amount
    IN
    /\ sender = CONTRACT_OWNER
    /\ to # ZERO_ADDRESS
    /\ withdrawAmount <= treasuryBalance
    /\ usdcBalance[TREASURY_CONTRACT] >= withdrawAmount
    /\ treasuryBalance' = treasuryBalance - withdrawAmount
    /\ usdcBalance' = Transfer(usdcBalance, TREASURY_CONTRACT, to, withdrawAmount)
    /\ lastCall' = Call("withdrawTreasury", sender, 0, 0, amount, to, TRUE,
                        ZERO_ADDRESS, NoEvent)
    /\ UNCHANGED <<pixelOwner, pixelPrice, lootBalance>>

withdrawTreasuryReverts(sender, to, amount) ==
    LET withdrawAmount == IF amount = 0 THEN treasuryBalance ELSE amount
    IN
    /\ \/ sender # CONTRACT_OWNER
       \/ to = ZERO_ADDRESS
       \/ withdrawAmount > treasuryBalance
       \/ usdcBalance[TREASURY_CONTRACT] < withdrawAmount
    /\ Reverted("withdrawTreasury", sender, 0, 0, amount, to)

\* distributeLoot(winner, amount) sent by `sender`: onlyOwner, amount 0 is
\* the whole lootBalance.
distributeLoot(sender, winner, amount) ==
    LET distributeAmount == IF amount = 0 THEN lootBalance ELSE amount
    IN
    /\ sender = CONTRACT_OWNER
    /\ winner # ZERO_ADDRESS
    /\ distributeAmount <= lootBalance
    /\ usdcBalance[TREASURY_CONTRACT] >= distributeAmount
    /\ lootBalance' = lootBalance - distributeAmount
    /\ usdcBalance' = Transfer(usdcBalance, TREASURY_CONTRACT, winner, distributeAmount)
    /\ lastCall' = Call("distributeLoot", sender, 0, 0, amount, winner, TRUE,
                        ZERO_ADDRESS, NoEvent)
    /\ UNCHANGED <<pixelOwner, pixelPrice, treasuryBalance>>

distributeLootReverts(sender, winner, amount) ==
    LET distributeAmount == IF amount = 0 THEN lootBalance ELSE amount
    IN
    /\ \/ sender # CONTRACT_OWNER
       \/ winner = ZERO_ADDRESS
       \/ distributeAmount > lootBalance
       \/ usdcBalance[TREASURY_CONTRACT] < distributeAmount
    /\ Reverted("distributeLoot", sender, 0, 0, amount, winner)

\* rescueTokens(token, to, amount) sent by `sender`: onlyOwner; USDC only up
\* to what the contract holds beyond the two pools (the subtraction reverts
\* when the pools exceed the holdings). Holdings of other tokens are not
\* tracked: their transfer succeeds or reverts.
rescueTokens(sender, token, to, amount) ==
    /\ sender = CONTRACT_OWNER
    /\ token = USDC_ADDRESS
         => /\ usdcBalance[TREASURY_CONTRACT] >= treasuryBalance + lootBalance
            /\ amount <= usdcBalance[TREASURY_CONTRACT] - treasuryBalance - lootBalance
    /\ usdcBalance' = IF token = USDC_ADDRESS
                      THEN Transfer(usdcBalance, TREASURY_CONTRACT, to, amount)
                      ELSE usdcBalance
    /\ lastCall' = Call("rescueTokens", sender, 0, 0, amount, to, TRUE,
                        ZERO_ADDRESS, NoEvent)
    /\ UNCHANGED <<pixelOwner, pixelPrice, treasuryBalance, lootBalance>>

rescueTokensReverts(sender, token, to, amount) ==
    /\ \/ sender # CONTRACT_OWNER
       \/ token # USDC_ADDRESS
       \/ usdcBalance[TREASURY_CONTRACT] < treasuryBalance + lootBalance
       \/ amount > usdcBalance[TREASURY_CONTRACT] - treasuryBalance - lootBalance
    /\ Reverted("rescueTokens", sender, 0, 0, amount, to)

\* ------------------------------------------------- the contract on its own
\* The coordinates and amounts of the calls: a pixel of the canvas, amounts
\* of 1 raw unit, one not divisible by 10, and the price asked at the moment.
CallCoords == {<<10, 20>>, <<1000, 0>>}
CallAmounts(x, y) == {1, 1005, getPixelPrice(encodePixelId(x, y))}
Callers == Agents \cup {CONTRACT_OWNER}

\* Pay-outs: everything (0), a part, and more than a pool can hold; asked
\* for by the owner or by an agent, for agent-B.
PayoutAmounts == {0, 50, 1000000}
PayoutCallers == {CONTRACT_OWNER, "agent-A"}

\* Rescues: of USDC or another token, nothing or a little.
RescueTokens == {USDC_ADDRESS, "0xOtherToken"}
RescueAmounts == {0, 5}

MoreCalls == lastCall.n < MaxCalls

NextContract ==
    \/ \E a \in Agents, k \in CallCoords : \E amount \in CallAmounts(k[1], k[2]) :
          MoreCalls /\ capturePixel(a, k[1], k[2], amount) /\ UNCHANGED <<serverVars, clientVars>>
    \/ \E a \in Agents, k \in CallCoords : \E amount \in CallAmounts(k[1], k[2]) :
          MoreCalls /\ capturePixelReverts(a, k[1], k[2], amount) /\ UNCHANGED <<serverVars, clientVars>>
    \/ \E c \in Callers, k \in CallCoords, b \in Agents : \E amount \in CallAmounts(k[1], k[2]) :
          MoreCalls /\ recordCapture(c, k[1], k[2], amount, b) /\ UNCHANGED <<serverVars, clientVars>>
    \/ \E c \in Callers, k \in CallCoords, b \in Agents : \E amount \in CallAmounts(k[1], k[2]) :
          MoreCalls /\ recordCaptureReverts(c, k[1], k[2], amount, b) /\ UNCHANGED <<serverVars, clientVars>>
    \/ \E a \in Agents :
          MoreCalls /\ usdcTransfer(a, 1005) /\ UNCHANGED <<serverVars, clientVars>>
    \/ \E c \in PayoutCallers, amount \in PayoutAmounts :
          MoreCalls /\ withdrawTreasury(c, "agent-B", amount) /\ UNCHANGED <<serverVars, clientVars>>
    \/ \E c \in PayoutCallers, amount \in PayoutAmounts :
          MoreCalls /\ withdrawTreasuryReverts(c, "agent-B", amount) /\ UNCHANGED <<serverVars, clientVars>>
    \/ \E c \in PayoutCallers, amount \in PayoutAmounts :
          MoreCalls /\ distributeLoot(c, "agent-B", amount) /\ UNCHANGED <<serverVars, clientVars>>
    \/ \E c \in PayoutCallers, amount \in PayoutAmounts :
          MoreCalls /\ distributeLootReverts(c, "agent-B", amount) /\ UNCHANGED <<serverVars, clientVars>>
    \/ \E c \in PayoutCallers, token \in RescueTokens, amount \in RescueAmounts :
          MoreCalls /\ rescueTokens(c, token, "agent-B", amount) /\ UNCHANGED <<serverVars, clientVars>>
    \/ \E c \in PayoutCallers, token \in RescueTokens, amount \in RescueAmounts :
          MoreCalls /\ rescueTokensReverts(c, token, "agent-B", amount) /\ UNCHANGED <<serverVars, clientVars>>

SpecContract == Init /\ [][NextContract]_vars

\* ------------------------------------------- server and contract side by side
\* One claim made on both: a POST /pixel whose proof is a transfer of exactly
\* the quoted price, handled with no other request in flight, and a
\* capturePixel by the same agent paying exactly getPixelPrice.
MirrorProof(n, amount) == Plain(TxOk(100 + n, amount))

ServerClaim(rq) ==
    LET r == Read(rq)
        h == parsePaymentHeader(rq.header)
    IN
    /\ InputError(rq) = "none"
    /\ h \notin usedTxHashes
    /\ devMode \/ CheckReceipt(Receipt(h), r.price_usdc) = "ok"
    /\ usedTxHashes' = MarkUsed(usedTxHashes, h)
    /\ Write(r)
    /\ UNCHANGED <<now, devMode, reqs, clientVars>>

MirrorClaim(a, x, y) ==
    /\ Len(txLedger) < MaxMirror
    /\ ServerClaim(Request(x, y, GoodColor, a,
                           MirrorProof(Len(txLedger), calcPrice(canvasStore[pixelKey(x, y)]))))
    /\ capturePixel(a, x, y, getPixelPrice(encodePixelId(x, y)))

NextMirror ==
    \E a \in Agents, k \in {<<10, 20>>, <<5, 5>>} : MirrorClaim(a, k[1], k[2])

SpecMirror == Init /\ [][NextMirror]_vars

\* ---------------------------------------------------- the skill client runs
\* run(): the token is obtained, GET /pixels answers with the canvas and,
\* for the heatmap strategy, GET /stats with the heatmap.
RunLoads(canvas, stats) ==
    /\ client.pc = "start"
    /\ stats.loaded <=> strategy.name = "heatmap"
    /\ client' = [client EXCEPT !.pc = "loop", !.canvas = canvas, !.stats = stats]
    /\ UNCHANGED <<serverVars, contractVars, peer, sdkVars>>

\* run(): GET /stats throws for the heatmap strategy; the run goes on with a
\* new random strategy and no stats.
RunLoadsWithoutHeatmap(canvas) ==
    /\ client.pc = "start"
    /\ strategy.name = "heatmap"
    /\ client' = [client EXCEPT !.pc = "loop", !.canvas = canvas, !.stats = NoStats]
    /\ strategy' = NewStrategy("random")
    /\ UNCHANGED <<serverVars, contractVars, peer, captchaVars, picks>>

\* run(): getAiToken or apiGet('/pixels') throws; the process ends.
RunAborts ==
    /\ client.pc = "start"
    /\ client' = [client EXCEPT !.pc = "exited"]
    /\ UNCHANGED <<serverVars, contractVars, peer, sdkVars>>

\* The loop condition fails, or Strategy.pick returns null.
RunEnds ==
    /\ client.pc = "loop"
    /\ client' = [client EXCEPT !.pc = "summary"]
    /\ UNCHANGED <<serverVars, contractVars, peer, sdkVars>>

RunBudgetSpent ==
    /\ ~ (client.spent < client.budget)
    /\ RunEnds

\* A loop that goes on to the next round when pick returns null.
RunStrategyExhaustedContinues ==
    /\ client.pc = "loop"
    /\ client.spent < client.budget
    /\ NoTarget \in pick(strategy.name, strategy.claimed, client.canvas, client.stats)
    /\ UNCHANGED vars

RunStrategyExhausted ==
    /\ client.spent < client.budget
    /\ NoTarget \in pick(strategy.name, strategy.claimed, client.canvas, client.stats)
    /\ RunEnds

\* A round starts: pick returns a target, which it has marked tried;
\* remaining = budget - spent.
RunPicks(target) ==
    /\ client.pc = "loop"
    /\ client.spent < client.budget
    /\ target \in pick(strategy.name, strategy.claimed, client.canvas, client.stats)
    /\ target # NoTarget
    /\ strategy' = [strategy EXCEPT !.claimed = markTried(@, target)]
    /\ client' = [client EXCEPT !.pc = "claim", !.round = @ + 1, !.target = target,
                                !.maxAmount = client.budget - client.spent,
                                !.res = NoResponse, !.proof = NoProof]
    /\ UNCHANGED <<serverVars, contractVars, peer, captchaVars, picks>>

\* updateCanvas(canvas, x, y, color, owner): the pixel is replaced or pushed.
updateCanvas(canvas, c, owner) ==
    { p \in canvas : <<p.x, p.y>> # c } \cup {Pixel(c[1], c[2], owner)}

\* The round ends with the value claimPixel returned: lines 657-666.
Finish(c, result) ==
    [c EXCEPT !.pc = "loop", !.result = result,
              !.canvas = IF result.success THEN updateCanvas(@, c.target, ClientAgent) ELSE @,
              !.spent = IF result.success THEN @ + result.amount ELSE @,
              !.claimed = IF result.success THEN @ + 1 ELSE @,
              !.failed = IF result.success THEN @ ELSE @ + 1]

\* ensureToken throws inside the round: the catch counts a failure.
RoundTokenFails ==
    /\ client.pc = "claim"
    /\ client' = [client EXCEPT !.pc = "loop", !.failed = @ + 1]
    /\ UNCHANGED <<serverVars, contractVars, peer, sdkVars>>

\* claimPixel with dryRun: nothing is posted.
ClaimDryRun ==
    /\ client.pc = "claim"
    /\ client.dryRun
    /\ client' = Finish(client, Result(TRUE, 0, "dry-run"))
    /\ UNCHANGED <<serverVars, contractVars, peer, sdkVars>>

\* What this backend answers to a POST /pixel without X-Payment: 400 or the
\* 402 quote, whose payment details are in the JSON body; no
\* X-Payment-Required header is set.
ServerFirstResponse(rq) ==
    IF InputError(rq) # "none" THEN Response(400, NoDetails)
    ELSE Response(402, NoDetails)

\* The answers of another server to the first POST.
OtherFirstResponses ==
    {NetworkError, Response(200, NoDetails), Response(500, NoDetails),
     Response(402, NoDetails), Response(402, Garbled),
     Response(402, Details(500)), Response(402, Details(1000)),
     Response(402, Details(3000))}

\* Step 1: the first POST and its response.
ClaimFirstPost(res) ==
    /\ client.pc = "claim"
    /\ ~ client.dryRun
    /\ IF peer = ThisServer
       THEN res = ServerFirstResponse(ClientRequest(client.target, NoHeader))
       ELSE res \in OtherFirstResponses
    /\ client' = [client EXCEPT !.pc = "answered", !.res = res]
    /\ UNCHANGED <<serverVars, contractVars, peer, sdkVars>>

\* Lines 134-175 and 181-183: what claimPixel returns without a payment
\* POST, NoResult when it goes on to pay.
FirstOutcome(c) ==
    IF c.res.threw THEN Result(FALSE, 0, "Network error")
    ELSE IF c.res.status \in 200..299 THEN Result(TRUE, 0, "no-payment-required")
    ELSE IF c.res.status # 402 THEN Result(FALSE, 0, "Unexpected status")
    ELSE IF ~ c.res.details.present
         THEN Result(FALSE, 0, "402 received but no X-Payment-Required header")
    ELSE IF ~ c.res.details.decodes
         THEN Result(FALSE, 0, "Failed to decode X-Payment-Required header")
    ELSE IF c.res.details.amount > c.maxAmount THEN Result(FALSE, 0, "exceeds remaining budget")
    ELSE IF c.realMode THEN Result(FALSE, 0, "Payment error")
    ELSE NoResult

ClaimReturnsUnpaid ==
    /\ client.pc = "answered"
    /\ FirstOutcome(client).returned
    /\ client' = Finish(client, FirstOutcome(client))
    /\ UNCHANGED <<serverVars, contractVars, peer, sdkVars>>

\* Step 3: the proof is built.
ClaimBuildsProof ==
    /\ client.pc = "answered"
    /\ ~ FirstOutcome(client).returned
    /\ client' = [client EXCEPT
                     !.pc = "paid",
                     !.proof = TestProof(Len(client.proofs), client.res.details.amount),
                     !.proofs = Append(@, client.res.details.amount)]
    /\ UNCHANGED <<serverVars, contractVars, peer, sdkVars>>

\* Lines 203-221: what claimPixel returns after the payment POST.
SecondOutcome(c, res2) ==
    IF res2.threw THEN Result(FALSE, 0, "Network error on payment POST")
    ELSE IF res2.status \notin 200..299 THEN Result(FALSE, 0, "Payment POST failed")
    ELSE Result(TRUE, c.res.details.amount, "ok")

\* The answers of another server to the payment POST.
OtherSecondResponses == {NetworkError, Response(200, NoDetails), Response(402, NoDetails)}

\* Step 4: the payment POST and its response.  This backend handles it with
\* no other request in flight: the handler of POST /pixel run on the
\* X-Payment header the client built.
ClaimSecondPost(res2) ==
    LET rq == ClientRequest(client.target, encodeHeader(client.proof))
        h == parsePaymentHeader(rq.header)
        r == Read(rq)
        settles == /\ InputError(rq) = "none"
                   /\ h \notin usedTxHashes
                   /\ devMode \/ CheckReceipt(Receipt(h), r.price_usdc) = "ok"
        status == IF InputError(rq) # "none" THEN 400 ELSE IF settles THEN 200 ELSE 402
    IN
    /\ client.pc = "paid"
    /\ IF peer = ThisServer
       THEN /\ res2 = Response(status, NoDetails)
            /\ IF settles
               THEN /\ usedTxHashes' = MarkUsed(usedTxHashes, h)
                    /\ Write(r)
               ELSE UNCHANGED <<canvasStore, txLedger, usedTxHashes>>
       ELSE /\ res2 \in OtherSecondResponses
            /\ UNCHANGED <<canvasStore, txLedger, usedTxHashes>>
    /\ client' = Finish(client, SecondOutcome(client, res2))
    /\ UNCHANGED <<now, devMode, reqs, contractVars, peer, sdkVars>>

InitClient == ServerInit /\ ContractInit /\ ClientInit /\ CaptchaInit /\ StrategyInit

\* The canvases GET /pixels answers a run with: those with every sample pixel.
RunCanvases == { canvas \in Canvases : \A c \in Samples : \E p \in canvas : <<p.x, p.y>> = c }

NextClient ==
    \/ \E canvas \in RunCanvases, stats \in StatsSamples : RunLoads(canvas, stats)
    \/ \E canvas \in RunCanvases : RunLoadsWithoutHeatmap(canvas)
    \/ RunAborts
    \/ RunBudgetSpent
    \/ RunStrategyExhausted
    \/ \E target \in Targets : RunPicks(target)
    \/ RoundTokenFails
    \/ ClaimDryRun
    \/ \E res \in OtherFirstResponses \cup {Response(400, NoDetails)} : ClaimFirstPost(res)
    \/ ClaimReturnsUnpaid
    \/ ClaimBuildsProof
    \/ \E res2 \in OtherSecondResponses \cup {Response(400, NoDetails)} :
          ClaimSecondPost(res2)

SpecClient == InitClient /\ [][NextClient]_vars

\* -------------------------------------------------- the CAPTCHA as a machine
\* generateChallenge(ttlMs): a fresh challenge_id, the record stored under
\* it and a timer that deletes it ttlMs + 1000 ms later.
generateChallenge(ttlMs, data) ==
    LET challenge_id == Len(challenges) + 1
        expires_at == now + ttlMs
    IN
    /\ Len(challenges) < MaxChallenges
    /\ _store' = [_store EXCEPT ![challenge_id] =
                      [answer |-> data.answer, type |-> data.type, expires_at |-> expires_at]]
    /\ timers' = timers \cup {[challenge_id |-> challenge_id,
                               due |-> now + ttlMs + GC_DELAY_MS]}
    /\ challenges' = Append(challenges, [challenge_id |-> challenge_id, type |-> data.type,
                                         answer |-> data.answer, expires_at |-> expires_at])
    /\ UNCHANGED <<verifications, serverVars, contractVars, peer, client, strategyVars>>

\* The clean-up timer of a challenge fires, at its due time or later.
TimerFires(t) ==
    /\ t \in timers
    /\ now >= t.due
    /\ timers' = timers \ {t}
    /\ _store' = [_store EXCEPT ![t.challenge_id] = Nil]
    /\ UNCHANGED <<challenges, verifications, serverVars, contractVars, peer, client, strategyVars>>

\* What verifyAnswer returns, in the order of its checks.
Verdict(challenge_id, answer) ==
    LET record == _store[challenge_id] IN
    IF record = Nil THEN "challenge_not_found_or_expired"
    ELSE IF now > record.expires_at THEN "challenge_expired"
    ELSE IF Normalized(answer) # record.answer THEN "wrong_answer"
    ELSE "ok"

\* A verifyAnswer that leaves the record in place when the answer is right.
verifyAnswerKeepsRecord(challenge_id, answer) ==
    LET reason == Verdict(challenge_id, answer) IN
    /\ Len(verifications) < MaxVerifies
    /\ _store' = IF reason = "challenge_expired"
                 THEN [_store EXCEPT ![challenge_id] = Nil]
                 ELSE _store
    /\ verifications' = Append(verifications,
           [challenge_id |-> challenge_id, answer |-> answer, at |-> now,
            valid |-> reason = "ok", reason |-> reason,
            token |-> IF reason = "ok"
                      THEN issueToken(challenge_id, _store[challenge_id].type)
                      ELSE NoToken])
    /\ UNCHANGED <<timers, challenges, serverVars, contractVars, peer, client, strategyVars>>

\* verifyAnswer(challenge_id, answer): the record is deleted when it has
\* expired and when the answer is right, and kept when the answer is wrong.
verifyAnswer(challenge_id, answer) ==
    LET reason == Verdict(challenge_id, answer) IN
    /\ Len(verifications) < MaxVerifies
    /\ _store' = IF reason \in {"challenge_expired", "ok"}
                 THEN [_store EXCEPT ![challenge_id] = Nil]
                 ELSE _store
    /\ verifications' = Append(verifications,
           [challenge_id |-> challenge_id, answer |-> answer, at |-> now,
            valid |-> reason = "ok", reason |-> reason,
            token |-> IF reason = "ok"
                      THEN issueToken(challenge_id, _store[challenge_id].type)
                      ELSE NoToken])
    /\ UNCHANGED <<timers, challenges, serverVars, contractVars, peer, client, strategyVars>>

\* Time passes, in steps of TickMs milliseconds.
CaptchaTick ==
    /\ now + TickMs <= MaxCaptchaClock
    /\ now' = now + TickMs
    /\ UNCHANGED <<devMode, canvasStore, txLedger, usedTxHashes, reqs,
                   contractVars, clientVars>>

NextCaptcha ==
    \/ \E data \in ChallengeData : generateChallenge(TTL_MS, data)
    \/ \E t \in timers : TimerFires(t)
    \/ \E challenge_id \in ChallengeIds, answer \in SentAnswers : verifyAnswer(challenge_id, answer)
    \/ CaptchaTick

SpecCaptcha == Init /\ [][NextCaptcha]_vars

\* ------------------------------------------------- the Strategy as a machine
\* A call of pick(canvas, stats): one of the values it can return; a
\* coordinate it returns has been marked tried.
StrategyPick(canvas, stats) ==
    /\ Len(picks) < MaxPicks
    /\ \E target \in pick(strategy.name, strategy.claimed, canvas, stats) :
          /\ strategy' = IF target = NoTarget THEN strategy
                         ELSE [strategy EXCEPT !.claimed = markTried(@, target)]
          /\ picks' = Append(picks, [call |-> "pick", target |-> target, stats |-> stats])
    /\ UNCHANGED <<serverVars, contractVars, peer, client, captchaVars>>

\* reset(): the session memory is cleared; a new session starts.
reset ==
    /\ Len(picks) < MaxPicks
    /\ strategy' = [strategy EXCEPT !.claimed = {}]
    /\ picks' = Append(picks, [call |-> "reset", target |-> NoTarget, stats |-> NoStats])
    /\ UNCHANGED <<serverVars, contractVars, peer, client, captchaVars>>

InitStrategy == ServerInit /\ ContractInit /\ ClientIdle /\ CaptchaInit /\ StrategyInit

NextStrategy ==
    \/ \E canvas \in Canvases, stats \in StatsSamples : StrategyPick(canvas, stats)
    \/ reset

SpecStrategy == InitStrategy /\ [][NextStrategy]_vars

\* -------------------------------------------------------------- properties
LedgerIdx == 1..Len(txLedger)
SettledHashes == { txLedger[k].tx_hash : k \in LedgerIdx }
Settled(i) == reqs[i].pc = "done" /\ reqs[i].status = 200
TxOf(i) == parsePaymentHeader(reqs[i].req.header)

\* The amount of USDC the transaction behind a hash moved to the owner wallet
\* (0 when there is no such successful transfer).
PaidOnChain(h) ==
    IF CheckReceipt(Receipt(h), 0) = "ok" THEN FindLog(Receipt(h)).data ELSE 0

\* The ledger entries of one pixel, in the order they were appended.
EntriesOf(x, y) ==
    SelectSeq(txLedger, LAMBDA e : e.x = x /\ e.y = y)

LedgerPixels == { <<txLedger[k].x, txLedger[k].y>> : k \in LedgerIdx }

\* C1: of two requests that carry the same tx_hash, at most one is settled,
\* also when both were suspended at the ledger lookup at the same time.
C1_SameHashSettlesOnce ==
    \A i, j \in ReqIds :
        (i # j /\ Settled(i) /\ Settled(j)) => TxOf(i) # TxOf(j)

\* C2: a request whose handler starts after a claim with tx_hash h was
\* settled and that carries h writes nothing to the canvas or the ledger and
\* is never settled; when it is well-formed it is answered 402 with the
\* reason "tx_hash already used", whatever its pixel and agent.
C2_ReplayRejected ==
    [][ \A i \in ReqIds :
          ( /\ reqs[i].pc = "new"
            /\ reqs'[i].pc # "new"
            /\ reqs'[i].req.header # NoHeader
            /\ parsePaymentHeader(reqs'[i].req.header) \in SettledHashes )
          => /\ canvasStore' = canvasStore
             /\ txLedger' = txLedger
             /\ reqs'[i].pc = "done"
             /\ reqs'[i].status # 200
             /\ InputError(reqs'[i].req) = "none"
                  => /\ reqs'[i].status = 402
                     /\ reqs'[i].reason = "tx_hash already used" ]_vars

\* C2 witness: a replay of a settled hash against another pixel by another
\* agent has been rejected as already used.
C2_Witness ==
    \E i \in ReqIds, k \in LedgerIdx :
        /\ reqs[i].pc = "done"
        /\ reqs[i].reason = "tx_hash already used"
        /\ txLedger[k].tx_hash = TxOf(i)
        /\ <<txLedger[k].x, txLedger[k].y>> # <<reqs[i].req.x, reqs[i].req.y>>
        /\ txLedger[k].buyer # reqs[i].req.agent_id

\* C3: two settled claims on the same pixel with different tx_hashes never
\* settle against the same pre-claim price.
C3_NoTwoSettlesAtOnePrice ==
    \A k, l \in LedgerIdx :
        ( /\ k < l
          /\ txLedger[k].x = txLedger[l].x
          /\ txLedger[k].y = txLedger[l].y
          /\ txLedger[k].tx_hash # txLedger[l].tx_hash )
        => txLedger[k].price_paid # txLedger[l].price_paid

\* C4: every settled claim's tx_hash resolves on the chain to a successful
\* USDC transfer to the owner wallet, whatever the server configuration.
C4_SettledOnlyIfTransferOnChain ==
    \A k \in LedgerIdx : CheckReceipt(Receipt(txLedger[k].tx_hash), 0) = "ok"

\* C5: no claim is settled by a proof whose transferred amount is below the
\* price the pixel required when the claim was settled: the base price for the
\* first claim of a pixel, the price after the previous settlement for the
\* later ones.
C5_UnderpaymentNeverSettles ==
    \A c \in LedgerPixels :
        \A n \in 1..Len(EntriesOf(c[1], c[2])) :
            LET es == EntriesOf(c[1], c[2])
                required == IF n = 1 THEN INITIAL_PRICE
                            ELSE round6Tenths(es[n - 1].price_paid, PRICE_MULTIPLIER_X10)
            IN PaidOnChain(es[n].tx_hash) >= required

\* C6: the four cuts of every ledger entry sum to price_paid.
C6_CutsSumToPricePaid ==
    \A k \in LedgerIdx :
        txLedger[k].rebate_to_previous_owner + txLedger[k].treasury_cut
          + txLedger[k].loot_cut + txLedger[k].dev_cut = txLedger[k].price_paid

\* C7: a first claim records rebate 0, treasury 80%, loot 10% and dev 10% of
\* the price paid.
C7_FirstClaimSplit ==
    \A k \in LedgerIdx :
        txLedger[k].seller = Null
        => /\ txLedger[k].rebate_to_previous_owner = 0
           /\ txLedger[k].treasury_cut = round6Tenths(txLedger[k].price_paid, 8)
           /\ txLedger[k].loot_cut = round6Tenths(txLedger[k].price_paid, 1)
           /\ txLedger[k].dev_cut = round6Tenths(txLedger[k].price_paid, 1)

\* C8: a claim on an owned pixel records rebate 40%, treasury 40%, loot 10%
\* and dev 10% of the amount the new buyer pays.
C8_ReclaimSplitOfGross ==
    \A k \in LedgerIdx :
        txLedger[k].seller # Null
        => /\ txLedger[k].rebate_to_previous_owner = round6Tenths(txLedger[k].price_paid, 4)
           /\ txLedger[k].treasury_cut = round6Tenths(txLedger[k].price_paid, 4)
           /\ txLedger[k].loot_cut = round6Tenths(txLedger[k].price_paid, 1)
           /\ txLedger[k].dev_cut = round6Tenths(txLedger[k].price_paid, 1)

\* C9: per pixel, the first settled claim pays the base price, each later one
\* pays the previous price times the multiplier rounded to 6 digits, and the
\* price never decreases from one settled claim to the next.
C9_PriceChain ==
    \A c \in LedgerPixels :
        LET es == EntriesOf(c[1], c[2]) IN
        /\ es[1].price_paid = INITIAL_PRICE
        /\ \A n \in 2..Len(es) :
              /\ es[n].price_paid = round6Tenths(es[n - 1].price_paid, PRICE_MULTIPLIER_X10)
              /\ es[n].price_paid >= es[n - 1].price_paid

\* C10: after the same claims, each paying exactly the required price, the
\* server and the contract require the same price for every pixel.
C10_ServerAndContractAgree ==
    \A k \in Keys :
        validateCoords(k[1], k[2])
        => calcPrice(canvasStore[k]) = getPixelPrice(encodePixelId(k[1], k[2]))

\* C11: no ledger entry has buyer equal to seller: a claim by the pixel's
\* current owner is never settled.
C11_NoSelfPurchase ==
    \A k \in LedgerIdx : txLedger[k].buyer # txLedger[k].seller

\* The response of request i is produced by this step.
Answered(i) == reqs[i].pc # "done" /\ reqs'[i].pc = "done"
\* The handler of request i starts in this step.
Started(i) == reqs[i].pc = "new" /\ reqs'[i].pc # "new"

IsPost(rq) == rq.route = "POST /pixel"

VerifierReasons ==
    {"tx_hash already used", "tx not found on chain", "tx failed on chain",
     "no matching USDC Transfer to owner", "amount too low", "rpc error"}

\* C12: a step in which the verifier's rejection of request i is answered
\* answers 402 and leaves canvasStore and txLedger as they were.
C12_RejectionWritesNothing ==
    [][\A i \in ReqIds :
         (Answered(i) /\ reqs'[i].reason \in VerifierReasons)
         => /\ reqs'[i].status = 402
            /\ canvasStore' = canvasStore
            /\ txLedger' = txLedger]_vars

C12_Witness ==
    \E i \in ReqIds :
        /\ reqs[i].pc = "done" /\ reqs[i].status = 402
        /\ reqs[i].reason = "amount too low"
        /\ reqs[i].rpc = "receipt"
        /\ txLedger # <<>>

\* C13: when getTransactionReceipt throws for request i, the request is
\* answered 402 "rpc error" and canvasStore, txLedger and usedTxHashes are
\* not changed: nothing is settled and the hash is not marked used.
C13_LookupErrorFailsClosed ==
    [][\A i \in ReqIds :
         (reqs[i].rpc # "threw" /\ reqs'[i].rpc = "threw")
         => /\ reqs'[i].pc = "done"
            /\ reqs'[i].status = 402
            /\ reqs'[i].reason = "rpc error"
            /\ canvasStore' = canvasStore
            /\ txLedger' = txLedger
            /\ usedTxHashes' = usedTxHashes]_vars

C13_Witness ==
    \E i \in ReqIds :
        /\ reqs[i].rpc = "threw"
        /\ reqs[i].req.header = Plain(TxB)
        /\ reqs[i].existing # Nil
        /\ TxB \notin usedTxHashes

\* What the claim calls a malformed POST: a coordinate outside [0, 1000), a
\* colour that is not #RRGGBB, or no agent identity.
Malformed(rq) ==
    \/ rq.x \notin 0..(CANVAS_SIZE - 1)
    \/ rq.y \notin 0..(CANVAS_SIZE - 1)
    \/ ~ validateColor(rq.color)
    \/ ~ validAgent(rq.agent_id)

\* C14: a malformed POST /pixel is answered 400 in the step its handler
\* starts, is never suspended at the verifier, and changes neither
\* canvasStore nor txLedger nor usedTxHashes, with or without a header.
C14_MalformedIs400 ==
    [][\A i \in ReqIds :
         (Started(i) /\ IsPost(reqs'[i].req) /\ Malformed(reqs'[i].req))
         => /\ reqs'[i].pc = "done"
            /\ reqs'[i].status = 400
            /\ reqs'[i].rpc = "none"
            /\ canvasStore' = canvasStore
            /\ txLedger' = txLedger
            /\ usedTxHashes' = usedTxHashes]_vars

C14_Witness ==
    \E i, j \in ReqIds :
        /\ reqs[i].pc = "done" /\ reqs[i].status = 400
        /\ reqs[i].req.header = NoHeader
        /\ reqs[j].pc = "done" /\ reqs[j].status = 400
        /\ reqs[j].req.header # NoHeader
        /\ reqs[j].req.x = CANVAS_SIZE

\* What is wrong with the transaction behind hash h as a payment of
\* expectedRaw, read off the chain.
Fault(h, expectedRaw) ==
    IF h.kind = "missing" THEN "not-found"
    ELSE IF h.kind = "failed" THEN "failed"
    ELSE IF h.to # OWNER_WALLET THEN "wrong-recipient"
    ELSE IF h.asset # USDC_ADDRESS THEN "wrong-asset"
    ELSE IF h.amount < expectedRaw THEN "insufficient"
    ELSE "none"

\* Request i was rejected by the verifier, for a reason other than a lookup
\* error.
VerifierRejected(i) ==
    /\ reqs[i].pc = "done"
    /\ reqs[i].status = 402
    /\ reqs[i].req.header # NoHeader
    /\ reqs[i].reason # "rpc error"

FaultOf(i) ==
    IF reqs[i].reason = "tx_hash already used" THEN "already-used"
    ELSE Fault(TxOf(i), reqs[i].price_usdc)

\* Wrong recipient and wrong asset taken as one fault: no USDC transfer to
\* the owner wallet.
FaultClassOf(i) ==
    IF FaultOf(i) \in {"wrong-recipient", "wrong-asset"} THEN "no-matching-transfer"
    ELSE FaultOf(i)

C16_ReadsAndQuotesWriteNothing ==
    [][\A i \in ReqIds :
         (Started(i) /\ (~ IsPost(reqs'[i].req) \/ reqs'[i].req.header = NoHeader))
         => /\ canvasStore' = canvasStore
            /\ txLedger' = txLedger
            /\ usedTxHashes' = usedTxHashes
            /\ (IsPost(reqs'[i].req) /\ ~ Malformed(reqs'[i].req))
               => /\ reqs'[i].pc = "done"
                  /\ reqs'[i].status = 402
                  /\ reqs'[i].price_usdc =
                        calcPrice(canvasStore[pixelKey(reqs'[i].req.x, reqs'[i].req.y)])]_vars

C16_Witness ==
    \E i, j \in ReqIds :
        /\ Settled(j)
        /\ reqs[i].pc = "done" /\ reqs[i].status = 402
        /\ reqs[i].req.header = NoHeader
        /\ reqs[i].price_usdc = 1300

\* The last call ran _distribute: a capturePixel or recordCapture that
\* returned.
Distributing ==
    lastCall.ok /\ lastCall.fn \in {"capturePixel", "recordCapture"}

\* C17: the four amounts of every _distribute add up to the amount, none is
\* negative, and with no previous owner the rebate is 0 and the treasury
\* takes everything but the loot and dev amounts.
C17_DistributionIsExact ==
    Distributing =>
        /\ lastCall.dist.rebate + lastCall.dist.treasury
             + lastCall.dist.loot + lastCall.dist.dev = lastCall.amount
        /\ \A part \in {"rebate", "treasury", "loot", "dev"} : lastCall.dist[part] >= 0
        /\ lastCall.previousOwner = ZERO_ADDRESS
           => /\ lastCall.dist.rebate = 0
              /\ lastCall.dist.treasury =
                    lastCall.amount - lastCall.dist.loot - lastCall.dist.dev

C17_Witness ==
    /\ Distributing
    /\ lastCall.amount = 1
    /\ lastCall.previousOwner # ZERO_ADDRESS
    /\ lastCall.dist.treasury = 1

\* part is amount * bps / 10000 rounded down.
FlooredShare(part, amount, bps) ==
    /\ part * BPS_DENOMINATOR <= amount * bps
    /\ amount * bps < (part + 1) * BPS_DENOMINATOR

\* part is amount * bps / 10000 rounded down plus what the floored shares
\* leave over (less than one unit each).
ShareWithRemainder(part, amount, bps, others) ==
    /\ part * BPS_DENOMINATOR >= amount * bps
    /\ part * BPS_DENOMINATOR < amount * bps + others * BPS_DENOMINATOR

\* C18: with a previous owner the rebate, loot and dev amounts are 40%, 10%
\* and 10% of the amount rounded down and the treasury amount is 40% plus
\* the remainder; on a first capture the rebate is 0 and the treasury amount
\* is 80% plus the remainder; 1500 with a previous owner gives
\* 600 / 600 / 150 / 150.
C18_SplitProportions ==
    Distributing =>
        LET d == lastCall.dist
            amount == lastCall.amount
        IN
        /\ FlooredShare(d.loot, amount, 1000)
        /\ FlooredShare(d.dev, amount, 1000)
        /\ IF lastCall.previousOwner # ZERO_ADDRESS
           THEN /\ FlooredShare(d.rebate, amount, 4000)
                /\ ShareWithRemainder(d.treasury, amount, 4000, 3)
           ELSE /\ d.rebate = 0
                /\ ShareWithRemainder(d.treasury, amount, 8000, 2)
        /\ (amount = 1500 /\ lastCall.previousOwner # ZERO_ADDRESS)
           => d = [rebate |-> 600, treasury |-> 600, loot |-> 150, dev |-> 150]

C18_Witness ==
    /\ Distributing
    /\ lastCall.amount = 1500
    /\ lastCall.previousOwner # ZERO_ADDRESS
    /\ lastCall.dist = [rebate |-> 600, treasury |-> 600, loot |-> 150, dev |-> 150]

\* This step is a call of fn.
Called(fn) == lastCall'.n # lastCall.n /\ lastCall'.fn = fn

\* C19: a capturePixel returns only if the amount is at least the pixel's
\* price and the sender is not the pixel's owner; a capturePixel that
\* reverts leaves pixelOwner, pixelPrice, treasuryBalance and lootBalance
\* as they were.
C19_CaptureGuards ==
    [][Called("capturePixel") =>
         LET pixelId == encodePixelId(lastCall'.x, lastCall'.y)
         IN
         /\ lastCall'.ok
            => /\ lastCall'.amount >= getPixelPrice(pixelId)
               /\ lastCall'.sender # pixelOwner[pixelId]
         /\ ~ lastCall'.ok
            => UNCHANGED <<pixelOwner, pixelPrice, treasuryBalance, lootBalance>>]_vars

C19_Witness ==
    /\ lastCall.fn = "capturePixel"
    /\ ~ lastCall.ok
    /\ lastCall.sender = pixelOwner[encodePixelId(lastCall.x, lastCall.y)]
    /\ lastCall.amount >= getPixelPrice(encodePixelId(lastCall.x, lastCall.y))
    /\ treasuryBalance > 0

\* C20: no step lowers getPixelPrice of any pixel.
C20_PriceNeverDecreases ==
    [][\A id \in PixelIds : getPixelPrice(id)' >= getPixelPrice(id)]_vars

\* C21: a step that lowers treasuryBalance or lootBalance is a call by the
\* contract owner; a withdrawTreasury or distributeLoot that returns pays
\* the recipient what it takes off its pool, never more than the pool held,
\* the whole pool for amount 0, and leaves the other pool and every pixel's
\* owner and price as they were.
C21_PayoutsOwnerOnlyAndBounded ==
    [][/\ (treasuryBalance' < treasuryBalance \/ lootBalance' < lootBalance)
          => lastCall'.sender = CONTRACT_OWNER
       /\ (Called("withdrawTreasury") /\ lastCall'.ok)
          => /\ treasuryBalance' >= 0
             /\ treasuryBalance' <= treasuryBalance
             /\ lastCall'.amount = 0 => treasuryBalance' = 0
             /\ lastCall'.amount # 0 => treasuryBalance' = treasuryBalance - lastCall'.amount
             /\ usdcBalance'[lastCall'.buyer] - usdcBalance[lastCall'.buyer]
                   = treasuryBalance - treasuryBalance'
             /\ UNCHANGED <<lootBalance, pixelOwner, pixelPrice>>
       /\ (Called("distributeLoot") /\ lastCall'.ok)
          => /\ lootBalance' >= 0
             /\ lootBalance' <= lootBalance
             /\ lastCall'.amount = 0 => lootBalance' = 0
             /\ lastCall'.amount # 0 => lootBalance' = lootBalance - lastCall'.amount
             /\ usdcBalance'[lastCall'.buyer] - usdcBalance[lastCall'.buyer]
                   = lootBalance - lootBalance'
             /\ UNCHANGED <<treasuryBalance, pixelOwner, pixelPrice>>]_vars

C21_Witness ==
    /\ lastCall.fn = "withdrawTreasury"
    /\ lastCall.ok
    /\ lastCall.amount = 0
    /\ treasuryBalance = 0
    /\ lootBalance > 0
    /\ usdcBalance["agent-B"] > InitialFunds

\* The pixel the client's last claimPixel was for.
ClientPixel == canvasStore[pixelKey(client.target[1], client.target[2])]

Sum(seq) == LET S[k \in 0..Len(seq)] == IF k = 0 THEN 0 ELSE S[k - 1] + seq[k] IN S[Len(seq)]

\* C22: a claimPixel run against this backend for an in-range, unclaimed
\* pixel whose price is within the budget returns success, with the pixel
\* owned by the agent.
C22_ClaimPixelSucceedsHere ==
    ( /\ peer = ThisServer
      /\ ~ client.dryRun /\ ~ client.realMode
      /\ client.round = 1
      /\ client.result.returned )
    => /\ client.result.success
       /\ ClientPixel # Nil

\* C23: the amounts of the proofs the client has built in a run add up to
\* at most the budget.
C23_PaymentsWithinBudget ==
    Sum(client.proofs) <= client.budget

\* Request i was answered with the 402 quote.
Quoted(i) ==
    /\ reqs[i].pc = "done"
    /\ reqs[i].status = 402
    /\ reqs[i].req.header = NoHeader

\* Request j carries a proof and answers the quote given to request i: same
\* agent, same pixel, and no later quote for them before j.
Answers(j, i) ==
    /\ Quoted(i)
    /\ i < j
    /\ reqs[j].pc # "new"
    /\ IsPost(reqs[j].req)
    /\ reqs[j].req.header # NoHeader
    /\ reqs[j].req.agent_id = reqs[i].req.agent_id
    /\ pixelKey(reqs[j].req.x, reqs[j].req.y) = pixelKey(reqs[i].req.x, reqs[i].req.y)
    /\ \A k \in ReqIds : (i < k /\ k < j) => ~ Quoted(k)

\* C24: a request whose proof arrives more than 300 seconds after the quote
\* it answers is not settled.
C24_ExpiredQuoteRejected ==
    \A i, j \in ReqIds :
        (Answers(j, i) /\ reqs[j].at > reqs[i].at + MAX_TIMEOUT_SECONDS)
        => ~ Settled(j)

\* C25: a well-formed POST /pixel whose tx_hash is in usedTxHashes when its
\* handler starts is answered in that same step, 402 "tx_hash already used",
\* without being suspended at the ledger lookup, whatever the chain holds
\* for the hash.
C25_ReplayCheckedFirst ==
    [][\A i \in ReqIds :
         ( /\ Started(i)
           /\ IsPost(reqs'[i].req)
           /\ ~ Malformed(reqs'[i].req)
           /\ reqs'[i].req.header # NoHeader
           /\ parsePaymentHeader(reqs'[i].req.header) \in usedTxHashes )
         => /\ reqs'[i].pc = "done"
            /\ reqs'[i].rpc = "none"
            /\ reqs'[i].status = 402
            /\ reqs'[i].reason = "tx_hash already used"]_vars

C25_Witness ==
    \E i \in ReqIds :
        /\ reqs[i].pc = "done"
        /\ reqs[i].reason = "tx_hash already used"
        /\ reqs[i].rpc = "none"
        /\ Fault(TxOf(i), reqs[i].price_usdc) \in {"not-found", "failed", "wrong-recipient"}

\* C26: every POST /pixel with a payment proof whose handler has started is
\* eventually answered, settled or rejected.
C26_ProofEventuallyAnswered ==
    \A i \in ReqIds :
        (reqs[i].pc # "new" /\ reqs[i].req.header # NoHeader) ~> (reqs[i].pc = "done")

\* Request i is a well-formed POST /pixel with a proof whose handler has
\* started.
Claiming(i) ==
    /\ reqs[i].pc # "new"
    /\ IsPost(reqs[i].req)
    /\ ~ Malformed(reqs[i].req)
    /\ reqs[i].req.header # NoHeader

CoordsOf(i) == <<reqs[i].req.x, reqs[i].req.y>>

\* All claims made so far are on pairwise different pixels with pairwise
\* different tx_hashes.
ClaimsDisjoint ==
    \A i, j \in ReqIds :
        (Claiming(i) /\ Claiming(j) /\ i # j)
        => (CoordsOf(i) # CoordsOf(j) /\ TxOf(i) # TxOf(j))

\* What the claim of request i comes to when it is handled alone on the
\* canvas the server starts with, given the same answer of the lookup.
SettlesAlone(i) ==
    /\ reqs[i].rpc # "threw"
    /\ devMode \/ CheckReceipt(Receipt(TxOf(i)), INITIAL_PRICE) = "ok"

\* Some handler is suspended at the lookup.
SomeSuspended == \E i \in ReqIds : reqs[i].pc = "awaitReceipt"

\* C27: when the claims made are on pairwise different pixels with pairwise
\* different tx_hashes, then however their handlers interleaved, each is
\* settled exactly when it settles alone, each settlement has written only
\* the canvas entry of its own coordinates, and canvas and ledger entries are
\* those of the claims handled one after the other.
C27_DisjointClaimsDoNotInterfere ==
    (ClaimsDisjoint /\ ~ SomeSuspended)
    => /\ \A i \in ReqIds :
            Claiming(i)
            => /\ Settled(i) <=> SettlesAlone(i)
               /\ canvasStore[pixelKey(reqs[i].req.x, reqs[i].req.y)] =
                     IF SettlesAlone(i) THEN NewPixel(reqs[i].req, INITIAL_PRICE) ELSE Nil
       /\ \A k \in Keys :
            (\A i \in ReqIds : Claiming(i) => CoordsOf(i) # k) => canvasStore[k] = Nil
       /\ { txLedger[n] : n \in LedgerIdx } =
             { TxRecord(reqs[i].req, Nil, INITIAL_PRICE) :
                 i \in { j \in ReqIds : Claiming(j) /\ SettlesAlone(j) } }
       /\ Len(txLedger) = Cardinality({ j \in ReqIds : Claiming(j) /\ SettlesAlone(j) })

\* Two claims on different pixels with different tx_hashes have both
\* settled, the one that started later first: it settled while the other
\* was suspended at the lookup.
C27_Witness ==
    \E i, j \in ReqIds :
        /\ i < j
        /\ Settled(i) /\ Settled(j)
        /\ ClaimsDisjoint
        /\ Len(txLedger) = 2
        /\ txLedger[1].tx_hash = TxOf(j)

\* The proof of request i names a payer: it is a JSON proof, a plain
\* tx_hash names none.
NamesPayer(i) == reqs[i].req.header.enc = "json" /\ reqs[i].req.header.payer # Null

\* C28: a claim whose proof names a payer is settled by the on-chain
\* verifier only if the transaction's USDC Transfer log has from equal to
\* that payer, to equal to the owner wallet and an amount of at least the
\* expected price; a transfer sent by another address is rejected.
C28_TransferFromProofPayer ==
    \A i \in ReqIds :
        (Settled(i) /\ ~ devMode /\ NamesPayer(i))
        => LET log == FindLog(Receipt(TxOf(i))) IN
           /\ log # Nil
           /\ log.from = reqs[i].req.header.payer
           /\ log.to = OWNER_WALLET
           /\ log.data >= reqs[i].price_usdc

\* A request that settles in this step: a POST /pixel answered with 200.
Settles(i) == Answered(i) /\ IsPost(reqs'[i].req) /\ reqs'[i].status = 200

\* C29: a step in which a claim settles appends exactly one ledger entry,
\* that of the claim, and every other step (a rejection, a quote for a
\* header-less request, a suspension, a read) appends none; the entries
\* already in the ledger stay as they are, and a canvas entry that is
\* present stays present.
C29_LedgerAppendOnlyPixelsPersist ==
    [][/\ SubSeq(txLedger', 1, Len(txLedger)) = txLedger
       /\ Len(txLedger') =
            Len(txLedger) + Cardinality({ i \in ReqIds : Settles(i) })
       /\ \A i \in ReqIds :
            Settles(i)
            => /\ txLedger'[Len(txLedger')].tx_hash = parsePaymentHeader(reqs'[i].req.header)
               /\ txLedger'[Len(txLedger')].x = reqs'[i].req.x
               /\ txLedger'[Len(txLedger')].y = reqs'[i].req.y
       /\ \A k \in Keys : canvasStore[k] # Nil => canvasStore'[k] # Nil]_vars

\* A second claim has settled on a pixel that already had a ledger entry
\* and a canvas entry.
C29_Witness ==
    /\ Len(txLedger) = 2
    /\ txLedger[1].x = txLedger[2].x /\ txLedger[1].y = txLedger[2].y
    /\ canvasStore[<<txLedger[1].x, txLedger[1].y>>] # Nil

\* C30: for every pixel, in the order its ledger entries were appended, the
\* seller of the first entry is null and the seller of each later entry is
\* the buyer of the entry before it, whether or not the claims on the pixel
\* overlapped in time.
C30_SellerIsPreviousBuyer ==
    \A p \in LedgerPixels :
        LET entries == EntriesOf(p[1], p[2]) IN
        \A n \in 1..Len(entries) :
            entries[n].seller = IF n = 1 THEN Null ELSE entries[n - 1].buyer

\* C31: in every reachable server state the pixels present in canvasStore
\* are exactly the pixels with a ledger entry, and the owner, price and
\* tx_hash of each stored pixel are the buyer, price_paid and tx_hash of the
\* last ledger entry appended for it.
C31_CanvasMatchesLastLedgerEntry ==
    /\ { k \in Keys : canvasStore[k] # Nil } = LedgerPixels
    /\ \A p \in LedgerPixels :
           LET entries == EntriesOf(p[1], p[2])
               last == entries[Len(entries)]
               pixel == canvasStore[pixelKey(p[1], p[2])]
           IN
           /\ pixel # Nil
           /\ pixel.owner = last.buyer
           /\ pixel.price = last.price_paid
           /\ pixel.tx_hash = last.tx_hash

\* Two claims on one pixel by different agents have settled, the second
\* with the price it read before the first was written, and a second pixel
\* is still absent.
C31_Witness ==
    /\ Len(txLedger) = 2
    /\ txLedger[1].x = txLedger[2].x /\ txLedger[1].y = txLedger[2].y
    /\ txLedger[1].buyer # txLedger[2].buyer
    /\ txLedger[2].seller = Null
    /\ \E k \in Keys : canvasStore[k] = Nil

\* C32: usedTxHashes only grows, a hash enters it only in a step in which a
\* claim carrying that hash settles (its verification returned ok), a step
\* that answers a request with anything but 200 leaves it unchanged, and
\* the tx_hash of every ledger entry is in it.
C32_UsedOnlyByAcceptedVerification ==
    [][/\ usedTxHashes \subseteq usedTxHashes'
       /\ \A h \in usedTxHashes' \ usedTxHashes :
            \E i \in ReqIds :
                Settles(i) /\ parsePaymentHeader(reqs'[i].req.header) = h
       /\ \A i \in ReqIds :
            (Answered(i) /\ reqs'[i].status # 200) => usedTxHashes' = usedTxHashes
       /\ \A k \in 1..Len(txLedger') : txLedger'[k].tx_hash \in usedTxHashes']_vars

\* A hash whose verification was rejected has been submitted again and has
\* settled: the earlier request carrying it got a 402 from the verifier for
\* a reason other than replay, the later one a 200.
C32_Witness ==
    \E i, j \in ReqIds :
        /\ i < j
        /\ reqs[i].pc = "done" /\ reqs[i].status = 402
        /\ reqs[i].reason \in VerifierReasons \ {"tx_hash already used"}
        /\ reqs[i].req.header # NoHeader
        /\ Settled(j) /\ IsPost(reqs[j].req)
        /\ TxOf(j) = TxOf(i)
        /\ TxOf(i) \in usedTxHashes
        /\ Len(txLedger) = 1

\* The header carries a transaction hash as a plain string or as JSON under
\* tx_hash, txHash or transaction_hash.
CarriesHash(header) ==
    \/ header.enc = "plain"
    \/ header.enc = "json" /\ header.field \in PaymentFields

\* A claim carrying the hash value h, in whichever of these encodings, has
\* been settled.
SettledWith(h) ==
    \E j \in ReqIds :
        Settled(j) /\ IsPost(reqs[j].req) /\ CarriesHash(reqs[j].req.header)
                   /\ reqs[j].req.header.hash = h

\* C33: the anti-replay key of a header that carries a hash as a plain
\* string or as JSON under tx_hash, txHash or transaction_hash is the hash
\* value itself, so a request whose handler starts after a claim with that
\* hash value was settled, in whichever of these encodings either was sent,
\* writes nothing and is never settled; when well-formed it is answered 402
\* "tx_hash already used".
C33_ReplayKeyIgnoresEncoding ==
    [][ \A i \in ReqIds :
          ( /\ Started(i)
            /\ IsPost(reqs'[i].req)
            /\ CarriesHash(reqs'[i].req.header)
            /\ SettledWith(reqs'[i].req.header.hash) )
          => /\ parsePaymentHeader(reqs'[i].req.header) = reqs'[i].req.header.hash
             /\ canvasStore' = canvasStore
             /\ txLedger' = txLedger
             /\ reqs'[i].pc = "done"
             /\ reqs'[i].status # 200
             /\ InputError(reqs'[i].req) = "none"
                  => /\ reqs'[i].status = 402
                     /\ reqs'[i].reason = "tx_hash already used" ]_vars

\* A hash settled as a plain string has been sent again as JSON under
\* txHash, for another pixel, and was rejected as already used.
C33_Witness ==
    \E i, j \in ReqIds :
        /\ Settled(i) /\ reqs[i].req.header = Plain(TxA)
        /\ reqs[j].pc = "done"
        /\ reqs[j].req.header = JsonUnder("txHash", TxA)
        /\ reqs[j].status = 402 /\ reqs[j].reason = "tx_hash already used"
        /\ Len(txLedger) = 1

\* C34: after any sequence of capturePixel, recordCapture, withdrawTreasury,
\* distributeLoot and rescueTokens calls the contract holds at least
\* treasuryBalance + lootBalance of USDC.
C34_PoolsCoveredByHoldings ==
    usdcBalance[TREASURY_CONTRACT] >= treasuryBalance + lootBalance

\* C35: the contract accepts a capture only for coordinates the server
\* accepts, 0 <= x,y < 1000, and two different coordinates in that range
\* never have the same pixel id.
C35_ContractCanvasIsServerCanvas ==
    /\ (lastCall.ok /\ lastCall.fn \in {"capturePixel", "recordCapture"})
           => validateCoords(lastCall.x, lastCall.y)
    /\ \A p, q \in Keys :
           (validateCoords(p[1], p[2]) /\ validateCoords(q[1], q[2]) /\ p # q)
           => encodePixelId(p[1], p[2]) # encodePixelId(q[1], q[2])

VerificationIdx == 1..Len(verifications)
IssuedIds == 1..Len(challenges)
RightAnswer(challenge_id, answer) == Normalized(answer) = challenges[challenge_id].answer
TokenIssuedFor(challenge_id) ==
    \E a \in VerificationIdx :
        verifications[a].valid /\ verifications[a].challenge_id = challenge_id

\* C36: a challenge yields at most one token: after a successful
\* verifyAnswer every later verifyAnswer for the same challenge_id fails; a
\* verifyAnswer succeeds only for an issued challenge, with its answer, at or
\* before its expires_at; and a challenge that has not expired and has given
\* no token is still in the store, so that wrong answers are answered
\* wrong_answer and the right answer is still accepted.
C36_ChallengeYieldsOneToken ==
    /\ \A a, b \in VerificationIdx :
           (a < b /\ verifications[a].valid
                  /\ verifications[b].challenge_id = verifications[a].challenge_id)
           => ~ verifications[b].valid
    /\ \A a \in VerificationIdx :
           verifications[a].valid
           => /\ verifications[a].challenge_id \in IssuedIds
              /\ verifications[a].at <= challenges[verifications[a].challenge_id].expires_at
              /\ RightAnswer(verifications[a].challenge_id, verifications[a].answer)
              /\ verifications[a].token.challenge_id = verifications[a].challenge_id
    /\ \A id \in IssuedIds :
           (now <= challenges[id].expires_at /\ ~ TokenIssuedFor(id))
           => /\ _store[id] # Nil
              /\ \A answer \in SentAnswers :
                   Verdict(id, answer) =
                       IF RightAnswer(id, answer) THEN "ok" ELSE "wrong_answer"

\* The right answer got a token and was sent again for the same challenge
\* before its expiry, and failed.
C36_Witness ==
    /\ Len(verifications) = 2
    /\ verifications[1].valid
    /\ verifications[2].challenge_id = verifications[1].challenge_id
    /\ RightAnswer(verifications[2].challenge_id, verifications[2].answer)
    /\ verifications[2].at <= challenges[verifications[2].challenge_id].expires_at
    /\ ~ verifications[2].valid

PickIdx == 1..Len(picks)
\* Calls a and b belong to one session: no reset lies between them.
SameSession(a, b) == \A k \in PickIdx : (a < k /\ k < b) => picks[k].call # "reset"
Returned(a) == picks[a].call = "pick" /\ picks[a].target # NoTarget
InCanvas(c) == 0 <= c[1] /\ c[1] < WIDTH /\ 0 <= c[2] /\ c[2] < HEIGHT
HeatmapInCanvas(stats) ==
    \A i \in 1..Len(stats.heatmap) : InCanvas(<<stats.heatmap[i].x, stats.heatmap[i].y>>)

\* C38: within one session, until reset is called, pick never returns a
\* coordinate it has returned before, whatever the strategy and the
\* fallback taken, and a coordinate it returns lies in 0 <= x,y < 1000 when
\* every entry of the heatmap it was given does.
C38_PickNeverRepeats ==
    /\ \A a, b \in PickIdx :
           (a < b /\ Returned(a) /\ Returned(b) /\ SameSession(a, b))
           => picks[a].target # picks[b].target
    /\ \A a \in PickIdx :
           (Returned(a) /\ HeatmapInCanvas(picks[a].stats)) => InCanvas(picks[a].target)

\* The heatmap strategy has returned the two pixels of a heatmap that names
\* one of them twice, and then, the heatmap exhausted, a pixel of the centre
\* zone from its fallback.
C38_Witness ==
    /\ strategy.name = "heatmap"
    /\ Len(picks) = 3
    /\ \A a \in PickIdx : Returned(a)
    /\ picks[1].stats = Stats(<<Hot(10, 20, 3), Hot(5, 5, 7), Hot(10, 20, 1)>>)
    /\ picks[2].stats = picks[1].stats /\ picks[3].stats = picks[1].stats
    /\ picks[1].target = <<5, 5>> /\ picks[2].target = <<10, 20>>
    /\ picks[3].target = <<500, 500>>

\* ------------------------------------------------------------------------
\* The run under the scheduling of the event loop: every awaited call (token,
\* canvas, stats, POST /pixel, payment, sleep) settles, so a run that can
\* take a step takes one.
SpecRun == InitClient /\ [][NextClient]_vars /\ WF_vars(NextClient)

\* C37: a run that has entered the game loop ends it and reaches the summary,
\* in dry-run mode and when every attempt fails as well; the loop is left
\* only with the budget spent or with no target returned.
C37_RunTerminates ==
    /\ (client.pc \in {"loop", "claim", "answered", "paid"}) ~> (client.pc = "summary")
    /\ [][client.pc = "loop" /\ client'.pc = "summary"
            => \/ ~ (client.spent < client.budget)
               \/ NoTarget \in pick(strategy.name, strategy.claimed,
                                     client.canvas, client.stats)]_vars

\* A dry run whose rounds all succeeded at no cost has reached the summary
\* with its budget unspent; so has a run whose every attempt failed.
C37_Witness ==
    /\ client.pc = "summary"
    /\ client.round >= 2
    /\ client.spent < client.budget
    /\ \/ client.dryRun /\ client.claimed = client.round
       \/ ~ client.dryRun /\ client.failed = client.round
====
